---- MODULE Spec2Model ----
(***************************************************************************)
(* The provisioning-graph engine of stackmate: the StageOperation class    *)
(* (constructor, setupProvisionables, process, environment, register,      *)
(* registerAssociated) with the helpers it calls (getProvisionable,        *)
(* hashObject, validate, validateEnvironment, assertRequirementsSatisfied).*)
(*                                                                         *)
(* A run of the model is one `new StageOperation(services, stack, scope)`  *)
(* followed by one `process()`.  The recursion of register is an explicit  *)
(* call stack; every handler invocation is appended to `log` together with *)
(* what the handler was given.                                             *)
(*                                                                         *)
(* The other specifications share the variables: SpecDeployment and        *)
(* SpecIdentity start from a project (validateServices, then the           *)
(* operation), SpecMonitoring from the monitoring and database services,   *)
(* SpecDefinition and SpecSchema apply the behaviors (withHandler,         *)
(* associate, withSchema and the schema behaviors, mergeJsonSchemas) to a  *)
(* core service, SpecGenerator is one call of getAutoGeneratedAttributes.  *)
(* SpecHandlers lets a link's handler return an empty object, and SpecLive *)
(* is Spec with every step that can be taken being taken.                  *)
(***************************************************************************)
EXTENDS Integers, Sequences, FiniteSets, TLC

\* ------------------------------------------------------------------ bounds

\* number of service configurations handed to the constructor
MaxServices == 3

\* depth of the call stack at which the runtime gives up (RangeError)
MaxDepth == 6

\* ------------------------------------------------------------ plain values

Undefined == "undefined"

EmptyObj == [x \in {} |-> Undefined]

Scopes == {"deployable", "preparable", "destroyable"}

ServiceTypes == {"provider", "mysql"}

Regions == {"eu", "us"}

Range(s) == {s[i] : i \in DOMAIN s}

RECURSIVE Flatten(_)
Flatten(ss) == IF ss = <<>> THEN <<>> ELSE Head(ss) \o Flatten(Tail(ss))

\* lodash get / a property read: the value under key, undefined when absent
Get(obj, key) == IF key \in DOMAIN obj THEN obj[key] ELSE Undefined

\* Object.assign(output, { [name]: out })
Assign(obj, key, val) ==
    [k \in DOMAIN obj \cup {key} |-> IF k = key THEN val ELSE obj[k]]

\* ----------------------------------------------------------- configurations

\* A configuration is a JS object: its keys in the order they were written.
MkConfig(type, region) == << <<"type", type>>, <<"region", region>> >>

Attr(config, key) ==
    IF \E i \in DOMAIN config : config[i][1] = key
    THEN LET i == CHOOSE j \in DOMAIN config : config[j][1] = key IN config[i][2]
    ELSE Undefined

\* JSON.stringify writes the keys in the object's own order
JSONStringify(obj) == Flatten(obj)

\* md5, taken as injective on the strings of the model
hashString(str) == <<"md5">> \o str

hashObject(obj) == hashString(JSONStringify(obj))

getProvisionableResourceId(config) ==
    << Attr(config, "type"), "aws", Attr(config, "region") >>

\* ------------------------------------------------------ service definitions

\* the predicates an association's `where` can hold
IsAssociated(where, config, linkedConfig) ==
    IF where = "sameRegion"
    THEN Attr(config, "region") = Attr(linkedConfig, "region")
    ELSE IF where = "isAssociatedWith"
    THEN /\ Attr(linkedConfig, "monitoring") = "true"
         /\ Attr(config, "provider") = Attr(linkedConfig, "provider")
         /\ Attr(config, "region") = Attr(linkedConfig, "region")
    ELSE FALSE

\* one association declaration of a definition
Association(name, with, where, requirement) ==
    [name |-> name, with |-> with, where |-> where, requirement |-> requirement]

\* ------------------------------------------------------------------ schemas

\* A schema is a JS object: its keywords and their values; `properties` is an
\* object of property definitions, `required` and `enum` are arrays.  The
\* message texts (errorMessage, description) are left out.

\* lodash uniq: the first occurrence of every value, in order
uniq(array) ==
    LET firsts == SelectSeq([i \in DOMAIN array |-> i],
                    LAMBDA i : \A j \in 1..(i - 1) : array[j] # array[i])
    IN  [k \in DOMAIN firsts |-> array[firsts[k]]]

\* lodash merge of two arrays: index by index, the source's entries assigned
mergeArrays(objValue, srcValue) ==
    [i \in 1..(IF Len(objValue) > Len(srcValue) THEN Len(objValue) ELSE Len(srcValue)) |->
        IF i <= Len(srcValue) THEN srcValue[i] ELSE objValue[i]]

\* the keywords of a property definition whose value is an array: enum, and
\* the default of a property of type 'array'
ArrayKeywords(definition) ==
    { k \in DOMAIN definition :
        \/ k = "enum"
        \/ k = "default" /\ "type" \in DOMAIN definition /\ definition["type"] = "array" }

\* lodash merge of two property definitions: keyword by keyword, the source's
\* value assigned, an array merged into an array
mergeDefinitions(objValue, srcValue) ==
    [k \in DOMAIN objValue \cup DOMAIN srcValue |->
        IF k \notin DOMAIN srcValue THEN objValue[k]
        ELSE IF k \notin DOMAIN objValue THEN srcValue[k]
        ELSE IF k \in ArrayKeywords(objValue) \cap ArrayKeywords(srcValue)
        THEN mergeArrays(objValue[k], srcValue[k])
        ELSE srcValue[k]]

\* merge({}, sourceProperties, targetProperties)
mergeProperties(sourceProperties, targetProperties) ==
    [p \in DOMAIN sourceProperties \cup DOMAIN targetProperties |->
        IF p \notin DOMAIN targetProperties THEN sourceProperties[p]
        ELSE IF p \notin DOMAIN sourceProperties THEN targetProperties[p]
        ELSE mergeDefinitions(sourceProperties[p], targetProperties[p])]

\* a merge that keeps the target's keywords only
mergeProps_TargetOnly(sourceProps, targetProps) == targetProps

\* merge({}, sourceProps, targetProps): the other keywords of the root, which
\* are scalars
mergeProps(sourceProps, targetProps) ==
    [k \in DOMAIN sourceProps \cup DOMAIN targetProps |->
        IF k \in DOMAIN targetProps THEN targetProps[k] ELSE sourceProps[k]]

\* required: [...sourceRequired, ...targetRequired], without uniq
mergeRequired_Concat(sourceRequired, targetRequired) == sourceRequired \o targetRequired

mergeRequired(sourceRequired, targetRequired) == uniq(sourceRequired \o targetRequired)

mergeJsonSchemas(source, target) ==
    LET sourceProperties == IF "properties" \in DOMAIN source THEN source["properties"] ELSE EmptyObj
        sourceRequired == IF "required" \in DOMAIN source THEN source["required"] ELSE <<>>
        sourceProps == [k \in DOMAIN source \ {"properties", "required"} |-> source[k]]
        targetProperties == IF "properties" \in DOMAIN target THEN target["properties"] ELSE EmptyObj
        targetRequired == IF "required" \in DOMAIN target THEN target["required"] ELSE <<>>
        targetProps == [k \in DOMAIN target \ {"properties", "required"} |-> target[k]]
        merged == mergeProps(sourceProps, targetProps)
    IN  [k \in DOMAIN merged \cup {"properties", "required"} |->
            IF k = "properties" THEN mergeProperties(sourceProperties, targetProperties)
            ELSE IF k = "required" THEN mergeRequired(sourceRequired, targetRequired)
            ELSE merged[k]]

\* the composition of service schemas
mergeServiceSchemas(a, b) == mergeJsonSchemas(a, b)

\* withSchema(mods)(srv)
withSchema(mods, srv) == [srv EXCEPT !.schema = mergeServiceSchemas(@, mods)]

\* a schema fragment that adds (or redefines) one property
PropertySchema(property, definition) ==
    ("type" :> "object") @@ ("properties" :> (property :> definition))

\* getCoreService: the closed schema of provider, type, region and name; no
\* region list (any region is valid), no environment, no handler, no
\* association
getCoreService(type) ==
    [type |-> type,
     schema |->
        ("$id" :> <<"services", "aws", type>>) @@ ("type" :> "object")
        @@ ("required" :> <<>>) @@ ("additionalProperties" :> FALSE)
        @@ ("properties" :>
              (("provider" :> [type |-> "string", enum |-> <<"aws">>, default |-> "aws",
                               isIncludedInConfigGeneration |-> TRUE])
               @@ ("type" :> [type |-> "string", enum |-> <<type>>, default |-> type])
               @@ ("region" :> [type |-> "string", isIncludedInConfigGeneration |-> TRUE])
               @@ ("name" :> [type |-> "string", pattern |-> "^([a-zA-Z0-9_-]+)$",
                              minLength |-> 2]))),
     regions |-> <<>>,
     environment |-> <<>>,
     handlers |-> EmptyObj,
     associations |-> [s \in Scopes |-> <<>>]]

\* withRegions(regions, defaultRegion): the region list as a property of the
\* definition and the region property of its schema; the default region is
\* the first of the list
withRegions(srv, regions) ==
    withSchema(
        PropertySchema("region",
            [type |-> "string", enum |-> regions, default |-> regions[1]]),
        [srv EXCEPT !.regions = regions])

\* inRegions(regions, defaultRegion)
inRegions(regions, defaultRegion, srv) ==
    withSchema(
        PropertySchema("region",
            [type |-> "string", enum |-> regions, default |-> defaultRegion]),
        [srv EXCEPT !.regions = regions])

sizeable(sizes, defaultSize, srv) ==
    withSchema(
        PropertySchema("size", [type |-> "string", enum |-> sizes, default |-> defaultSize]),
        srv)

storeable(defaultValue, min, max, srv) ==
    withSchema(
        PropertySchema("storage",
            [type |-> "number", minimum |-> min, maximum |-> max, default |-> defaultValue]),
        srv)

connectable(defaultPort, min, max, srv) ==
    withSchema(
        PropertySchema("port",
            [type |-> "number", minimum |-> min, maximum |-> max, default |-> defaultPort]),
        srv)

multiNode(defaultNodes, min, max, srv) ==
    withSchema(
        PropertySchema("nodes",
            [type |-> "number", minimum |-> min, maximum |-> max, default |-> defaultNodes]),
        srv)

versioned(versions, defaultVersion, srv) ==
    withSchema(
        PropertySchema("version",
            [type |-> "string", enum |-> versions, default |-> defaultVersion]),
        srv)

ofEngine(engine, srv) ==
    withSchema(
        PropertySchema("engine", [type |-> "string", enum |-> <<engine>>, default |-> engine]),
        srv)

withEnvironment(srv, name, required) ==
    [srv EXCEPT !.environment = @ \o << [name |-> name, required |-> required] >>]

\* service.handlers.has(scope)
handlersHas_Never(service, scope) == FALSE

handlersHas(service, scope) == scope \in DOMAIN service.handlers

\* withHandler(scope, handler)(service), where it returns: the entries of the
\* Map and the new one
withHandler(scope, handler, service) ==
    [service EXCEPT !.handlers = Assign(@, scope, handler)]

\* withHandler for each of the scopes, the handler named after its scope
withHandlers(srv, scopes) == [srv EXCEPT !.handlers = [s \in scopes |-> s]]

\* lodash merge of two declarations: a key the source gives a value to takes
\* that value (functions and strings are assigned, not merged), every other
\* key keeps the value it has
mergeAssociation(objValue, srcValue) ==
    [f \in DOMAIN objValue \cup DOMAIN srcValue |->
        IF f \in DOMAIN srcValue /\ (f = "requirement" \/ srcValue[f] # Undefined)
        THEN srcValue[f]
        ELSE IF f \in DOMAIN objValue THEN objValue[f] ELSE Undefined]

\* lodash merge of the declarations of one scope: the names are the keys of an
\* object, a key already there keeps its place
RECURSIVE mergeAssociations(_, _)
mergeAssociations(object, source) ==
    IF source = <<>> THEN object
    ELSE LET src == Head(source)
             at == { i \in DOMAIN object : object[i].name = src.name }
         IN  mergeAssociations(
                 IF at = {} THEN Append(object, src)
                 ELSE [i \in DOMAIN object |->
                         IF i \in at THEN mergeAssociation(object[i], src) ELSE object[i]],
                 Tail(source))

\* associate(associations)(service), for the declarations of one scope:
\* merge({}, service.associations, associations)
associate(srv, s, assocs) ==
    [srv EXCEPT !.associations[s] = mergeAssociations(@, assocs)]

\* ------------------------------------------------------------- the registry

\* what the first association slot of the mysql definition may declare
MysqlLinkShapes ==
    { <<Undefined, "sameRegion">>, <<"provider", Undefined>>,
      <<"provider", "sameRegion">>, <<"mysql", "sameRegion">> }

MysqlFirstChoices ==
    { <<>> } \cup
    { << Association("a", sh[1], sh[2], r) >> : sh \in MysqlLinkShapes, r \in BOOLEAN }

MysqlSecondChoices ==
    { <<>>, << Association("b", "provider", Undefined, FALSE) >> }

ProviderChoices ==
    { <<>>,
      << Association("alerts", "mysql", "sameRegion", FALSE) >>,
      << Association("alerts", "mysql", Undefined, FALSE) >> }

\* The provider: a regional core service with a handler for every scope, which
\* needs the TOKEN variable.
ProviderService(s, assocs) ==
    associate(
        withHandlers(
            withEnvironment(
                withRegions(getCoreService("provider"), <<"eu", "us">>),
                "TOKEN", TRUE),
            Scopes),
        s, assocs)

\* The database: deployable only; it can use TOKEN but does not need it.
MysqlService(s, assocs) ==
    associate(
        withHandlers(
            withEnvironment(getCoreService("mysql"), "TOKEN", FALSE),
            {"deployable"}),
        s, assocs)

Registries(s) ==
    { [t \in ServiceTypes |->
          IF t = "provider" THEN ProviderService(s, pa) ELSE MysqlService(s, ma \o mb)]
      : pa \in ProviderChoices, ma \in MysqlFirstChoices, mb \in MysqlSecondChoices }

\* every service type in every region, and a provider in a region it has not
Configs ==
    { MkConfig(t, r) : t \in ServiceTypes, r \in Regions } \cup { MkConfig("provider", "ap") }

\* the services given to the constructor: up to MaxServices configurations, all
\* different or with the first one given once more at the end
ServiceLists ==
    LET distinct == { srvs \in UNION { [1..n -> Configs] : n \in 1..MaxServices } :
                        \A i, j \in DOMAIN srvs : i # j => srvs[i] # srvs[j] }
    IN  distinct \cup { Append(srvs, srvs[1]) : srvs \in { d \in distinct : Len(d) < MaxServices } }

Environments == SUBSET {"TOKEN"}

\* ------------------------------------------------- monitoring and databases

\* getMonitoringService: regional, without a handler of its own; under
\* 'deployable' it has a side effect on every monitored database of its
\* provider and region
getMonitoringService ==
    withRegions(
        associate(getCoreService("monitoring"), "deployable",
                  << Association("mysql", "mysql", "isAssociatedWith", FALSE) >>),
        <<"eu", "us">>)

\* a database definition with a handler for 'deployable'
getDatabaseService == withHandlers(getCoreService("mysql"), {"deployable"})

MonitoringRegistry ==
    [t \in {"monitoring", "mysql"} |->
        IF t = "monitoring" THEN getMonitoringService ELSE getDatabaseService]

\* an AWS configuration; `monitoring` is written only when it is enabled
MkAwsConfig(type, region, monitoring) ==
    << <<"type", type>>, <<"provider", "aws">>, <<"region", region>> >>
    \o (IF monitoring THEN << <<"monitoring", "true">> >> ELSE <<>>)

MonitoringConfigs ==
    { MkAwsConfig("mysql", r, m) : r \in Regions, m \in BOOLEAN }
    \cup { MkAwsConfig("monitoring", r, FALSE) : r \in Regions }

\* up to MaxServices different configurations, in every order
MonitoringLists ==
    { srvs \in UNION { [1..n -> MonitoringConfigs] : n \in 1..MaxServices } :
        \A i, j \in DOMAIN srvs : i # j => srvs[i] # srvs[j] }

\* ------------------------------------------------------------------- state

VARIABLES
    registry,        \* Registry: service type -> definition
    services,        \* the configurations given to the constructor
    env,             \* process.env: the names of the variables that are set
    scope,           \* this.scope
    order,           \* iteration order of this.provisionables (a Map)
    provisionables,  \* this.provisionables: id -> provisionable
    requirements,    \* this.#requirements: id -> links
    sideEffects,     \* this.#sideEffects: id -> links
    phase,           \* where process() is
    error,           \* the error process() threw, if any
    cursor,          \* position of provisionables.forEach in process()
    stack,           \* the frames of register, innermost last
    returned,        \* the value the last register call returned
    calls,           \* how many register calls got past the memo check so far
    log,             \* the handler invocations so far, oldest first
    returns,         \* the register calls that have returned, oldest first
    previous         \* the outcome of an earlier process() over the same links

vars == << registry, services, env, scope, order, provisionables, requirements,
           sideEffects, phase, error, cursor, stack, returned, calls, log,
           returns, previous >>

\* --------------------------------------------------------- the constructor

\* Registry.fromConfig: the definition of the configuration's type.  A
\* provisionable holds a reference to the shared definition: its key.
fromConfig(config) == Attr(config, "type")

\* the definition a provisionable refers to
ServiceOf(reg, provisionable) == reg[provisionable.service]

getProvisionable(config) ==
    [id |-> hashObject(config),
     config |-> config,
     service |-> fromConfig(config),
     requirements |-> EmptyObj,
     provisions |-> EmptyObj,
     sideEffects |-> EmptyObj,
     registered |-> FALSE,
     resourceId |-> getProvisionableResourceId(config)]

\* Map.set: a new key goes last, an existing key keeps its place
MapOrder(ids) ==
    LET firsts == SelectSeq([i \in DOMAIN ids |-> i],
                            LAMBDA i : \A j \in 1..(i - 1) : ids[j] # ids[i])
    IN  [k \in DOMAIN firsts |-> ids[firsts[k]]]

\* the first loop of setupProvisionables: the last configuration of an id wins
ProvisionablesOf(srvs) ==
    LET ps == [i \in DOMAIN srvs |-> getProvisionable(srvs[i])]
        ids == { ps[i].id : i \in DOMAIN ps }
    IN  [id \in ids |->
            ps[CHOOSE i \in DOMAIN ps :
                  ps[i].id = id /\ \A j \in DOMAIN ps : ps[j].id = id => j <= i]]

\* the body of the innermost loop: does the declaration link config to linked
Applies(reg, assoc, provisionable, linked) ==
    /\ ~(assoc.with # Undefined /\ ServiceOf(reg, linked).type # assoc.with)
    /\ ~(assoc.where # Undefined
            /\ ~IsAssociated(assoc.where, provisionable.config, linked.config))

\* the three nested loops, as the list of (provisionable, association, linked)
\* they visit, in visiting order
Visits(reg, ord, provs, s) ==
    Flatten([i \in DOMAIN ord |->
        LET assocs == Get(ServiceOf(reg, provs[ord[i]]).associations, s)
            decls == IF assocs = Undefined THEN <<>> ELSE assocs
        IN  Flatten([a \in DOMAIN decls |->
                [l \in DOMAIN ord |-> << ord[i], decls[a], ord[l] >>]])])

RECURSIVE AddLinks_Prepend(_, _, _, _, _)
AddLinks_Prepend(reg, visits, provs, isReq, targetMap) ==
    IF visits = <<>> THEN targetMap
    ELSE LET id == Head(visits)[1]
             assoc == Head(visits)[2]
             linked == Head(visits)[3]
             links == IF id \in DOMAIN targetMap THEN targetMap[id] ELSE <<>>
         IN  IF Applies(reg, assoc, provs[id], provs[linked]) /\ assoc.requirement = isReq
             THEN AddLinks_Prepend(reg, Tail(visits), provs, isReq,
                     Assign(targetMap, id,
                            << [target |-> linked, name |-> assoc.name] >> \o links))
             ELSE AddLinks_Prepend(reg, Tail(visits), provs, isReq, targetMap)

\* lines 173-189: every visit that applies adds one link to the map of its kind
RECURSIVE AddLinks(_, _, _, _, _)
AddLinks(reg, visits, provs, isReq, targetMap) ==
    IF visits = <<>> THEN targetMap
    ELSE LET id == Head(visits)[1]
             assoc == Head(visits)[2]
             linked == Head(visits)[3]
             links == IF id \in DOMAIN targetMap THEN targetMap[id] ELSE <<>>
         IN  IF Applies(reg, assoc, provs[id], provs[linked]) /\ assoc.requirement = isReq
             THEN AddLinks(reg, Tail(visits), provs, isReq,
                     Assign(targetMap, id,
                            links \o << [target |-> linked, name |-> assoc.name] >>))
             ELSE AddLinks(reg, Tail(visits), provs, isReq, targetMap)

setupProvisionables(reg, srvs, s) ==
    LET provs == ProvisionablesOf(srvs)
        ord == MapOrder([i \in DOMAIN srvs |-> hashObject(srvs[i])])
        visits == Visits(reg, ord, provs, s)
    IN  [order |-> ord,
         provisionables |-> provs,
         requirements |-> AddLinks(reg, visits, provs, TRUE, EmptyObj),
         sideEffects |-> AddLinks(reg, visits, provs, FALSE, EmptyObj)]

NoError == [kind |-> "none", name |-> Undefined, service |-> Undefined, missing |-> {}]

Constructed(reg, srvs, e, s) ==
    LET op == setupProvisionables(reg, srvs, s)
    IN  /\ registry = reg
        /\ services = srvs
        /\ env = e
        /\ scope = s
        /\ order = op.order
        /\ provisionables = op.provisionables
        /\ requirements = op.requirements
        /\ sideEffects = op.sideEffects
        /\ phase = "constructed"
        /\ error = NoError
        /\ cursor = 0
        /\ stack = <<>>
        /\ returned = Undefined
        /\ calls = 0
        /\ log = <<>>
        /\ returns = <<>>
        /\ previous = <<>>

ActiveScopes == {"deployable", "preparable"}

Init ==
    \E s \in ActiveScopes : \E reg \in Registries(s) :
    \E srvs \in ServiceLists : \E e \in Environments :
        Constructed(reg, srvs, e, s)

\* a deployment over databases and monitoring services
InitMonitoring ==
    \E srvs \in MonitoringLists : Constructed(MonitoringRegistry, srvs, {}, "deployable")

\* ------------------------------------------------------------- validation

\* validate(service.schemaId, config, { useDefaults: true }): the schema of the
\* definition restricts the region once withRegions was applied; the data is
\* cloned, so the configuration itself is never written.
validate(service, config) ==
    service.regions = <<>> \/ Attr(config, "region") \in Range(service.regions)

\* the order in which the properties of a schema are gone through
PropertyOrder == <<"provider", "type", "region", "name", "size", "storage", "port",
                   "nodes", "version", "engine">>

\* ajv with useDefaults (AJV_OPTIONS, line 19): the properties the data lacks
\* are written to it with the defaults of the schema
withDefaults(schema, data) ==
    LET props == schema["properties"]
        missing == SelectSeq(PropertyOrder,
                      LAMBDA k : /\ k \in DOMAIN props
                                 /\ "default" \in DOMAIN props[k]
                                 /\ Attr(data, k) = Undefined)
    IN  data \o [i \in DOMAIN missing |-> << missing[i], props[missing[i]].default >>]

\* validate() that hands the data itself to ajv
dataAfterValidate_InPlace(service, data, useDefaults) == withDefaults(service.schema, data)

\* validate(), line 224: with options.useDefaults ajv is handed a deep clone
\* of the data, which is what the defaults are written to; the data itself is
\* what it was before the call
dataAfterValidate(service, data, useDefaults) ==
    IF useDefaults THEN data ELSE withDefaults(service.schema, data)

\* lodash uniqBy on the name: the first entry of a name is the one kept
uniqBy(envVariables) ==
    LET firsts == SelectSeq([i \in DOMAIN envVariables |-> i],
                    LAMBDA i : \A j \in 1..(i - 1) :
                                  envVariables[j].name # envVariables[i].name)
    IN  [k \in DOMAIN firsts |-> envVariables[firsts[k]]]

\* StageOperation.environment()
environment ==
    uniqBy(Flatten([i \in DOMAIN order |-> ServiceOf(registry, provisionables[order[i]]).environment]))

\* validateEnvironment: the names that are required and not set
validateEnvironment(required, e) ==
    { required[i].name : i \in { j \in DOMAIN required :
                                   required[j].required /\ required[j].name \notin e } }

assertRequirementsSatisfied_Off(provisionable, s) == Undefined

\* assertRequirementsSatisfied: the first requirement without an output, or none
assertRequirementsSatisfied(provisionable, s) ==
    LET associations == Get(ServiceOf(registry, provisionable).associations, s)
        decls == IF associations = Undefined THEN <<>> ELSE associations
        unmet == { i \in DOMAIN decls :
                     /\ decls[i].requirement
                     /\ decls[i].name \notin DOMAIN provisionable.requirements }
    IN  IF unmet = {} THEN Undefined
        ELSE decls[CHOOSE i \in unmet : \A j \in unmet : i <= j].name

\* ---------------------------------------------------------------- handlers

\* what a handler is shown of a provisionable
Seen(p) ==
    [id |-> p.id, requirements |-> p.requirements, provisions |-> p.provisions,
     sideEffects |-> p.sideEffects, registered |-> p.registered]

ScopeCalls(id) == { i \in DOMAIN log : log[i].kind = "scope" /\ log[i].id = id }

\* registrationHandler(provisionable, this.stack): every call builds new resources
Provisioned(id) == [resources |-> id, call |-> Cardinality(ScopeCalls(id)) + 1]

\* handler({ ...target, provisions }, this.stack, provisionable)
Associated(name, linked) == [link |-> name, of |-> linked.id, using |-> linked.provisions]

\* ----------------------------------------------------------------- process

\* a failure that is recorded without aborting the operation
Throw_Continue(kind, name, service) ==
    /\ phase' = phase
    /\ error' = [kind |-> kind, name |-> name, service |-> service, missing |-> {}]

Throw(kind, name, service) ==
    /\ phase' = "failed"
    /\ error' = [kind |-> kind, name |-> name, service |-> service, missing |-> {}]

\* EnvironmentValidationError(message, missing)
ThrowMissing(missing) ==
    /\ phase' = "failed"
    /\ error' = [kind |-> "environment", name |-> Undefined, service |-> Undefined,
                 missing |-> missing]

\* process(), line 126: the environment is checked first
process ==
    /\ phase = "constructed"
    /\ LET missing == validateEnvironment(environment, env)
       IN  IF missing # {}
           THEN ThrowMissing(missing)
           ELSE phase' = "running" /\ error' = error
    /\ cursor' = 1
    /\ UNCHANGED << registry, services, env, scope, order, provisionables,
                    requirements, sideEffects, stack, returned, calls, log,
                    returns, previous >>

\* register() with a guard against re-entering a provisionable whose own call
\* has not returned (the code has no such guard)
register_InProgress(id, callerStack) ==
    LET provisionable == provisionables[id]
        validated == dataAfterValidate(ServiceOf(registry, provisionable),
                                       provisionable.config, TRUE)
    IN  IF \/ provisionable.registered
           \/ \E i \in DOMAIN callerStack : callerStack[i].id = id
        THEN /\ returned' = provisionable.provisions
             /\ returns' = Append(returns, [id |-> id, call |-> 0,
                                            provisions |-> provisionable.provisions])
             /\ stack' = callerStack
             /\ UNCHANGED << phase, error, calls, provisionables >>
        ELSE IF Len(callerStack) >= MaxDepth
        THEN /\ Throw("RangeError", Undefined, provisionable.service)
             /\ UNCHANGED << stack, returned, calls, returns, provisionables >>
        ELSE IF ~validate(ServiceOf(registry, provisionable), provisionable.config)
        THEN /\ Throw("validation", Undefined, provisionable.service)
             /\ provisionables' = [provisionables EXCEPT ![id].config = validated]
             /\ UNCHANGED << stack, returned, calls, returns >>
        ELSE /\ stack' = Append(callerStack,
                    [id |-> id, call |-> calls + 1, stage |-> "requirements",
                     index |-> 1, output |-> EmptyObj, called |-> FALSE])
             /\ calls' = calls + 1
             /\ provisionables' = [provisionables EXCEPT ![id].config = validated]
             /\ UNCHANGED << phase, error, returned, returns >>

\* register(), lines 199-208, as entered from a caller that has pushed
\* `callerStack`: the memo check, then validation, then a frame of its own
register(id, callerStack) ==
    LET provisionable == provisionables[id]
        validated == dataAfterValidate(ServiceOf(registry, provisionable),
                                       provisionable.config, TRUE)
    IN  IF provisionable.registered
        THEN /\ returned' = provisionable.provisions
             /\ returns' = Append(returns, [id |-> id, call |-> 0,
                                            provisions |-> provisionable.provisions])
             /\ stack' = callerStack
             /\ UNCHANGED << phase, error, calls, provisionables >>
        ELSE IF Len(callerStack) >= MaxDepth
        THEN /\ Throw("RangeError", Undefined, provisionable.service)
             /\ UNCHANGED << stack, returned, calls, returns, provisionables >>
        ELSE IF ~validate(ServiceOf(registry, provisionable), provisionable.config)
        THEN /\ Throw("validation", Undefined, provisionable.service)
             /\ provisionables' = [provisionables EXCEPT ![id].config = validated]
             /\ UNCHANGED << stack, returned, calls, returns >>
        ELSE /\ stack' = Append(callerStack,
                    [id |-> id, call |-> calls + 1, stage |-> "requirements",
                     index |-> 1, output |-> EmptyObj, called |-> FALSE])
             /\ calls' = calls + 1
             /\ provisionables' = [provisionables EXCEPT ![id].config = validated]
             /\ UNCHANGED << phase, error, returned, returns >>

\* a loop that stops after the first node
Loop_FirstOnly == SubSeq(order, 1, 1)

\* the order in which provisionables.forEach (line 127) visits the nodes: the
\* iteration order of the Map, unless the loop is being run in another order
Loop == IF previous = <<>> THEN order ELSE previous[1].loop

\* process(), line 127: provisionables.forEach(p => this.register(p))
forEach ==
    /\ phase = "running"
    /\ stack = <<>>
    /\ cursor <= Len(Loop)
    /\ register(Loop[cursor], stack)
    /\ cursor' = cursor + 1
    /\ UNCHANGED << registry, services, env, scope, order,
                    requirements, sideEffects, log, previous >>

\* process(), line 128: return this.stack.toObject()
toObject ==
    /\ phase = "running"
    /\ stack = <<>>
    /\ cursor > Len(Loop)
    /\ phase' = "done"
    /\ UNCHANGED << registry, services, env, scope, order, provisionables,
                    requirements, sideEffects, error, cursor, stack, returned,
                    calls, log, returns, previous >>

Top == stack[Len(stack)]

LinksOf_Twice(frame) ==
    LET targetMap == IF frame.stage = "requirements" THEN requirements ELSE sideEffects
    IN  IF frame.id \in DOMAIN targetMap
        THEN targetMap[frame.id] \o targetMap[frame.id] ELSE <<>>

\* the links registerAssociated was given by the frame on top
LinksOf(frame) ==
    LET targetMap == IF frame.stage = "requirements" THEN requirements ELSE sideEffects
    IN  IF frame.id \in DOMAIN targetMap THEN targetMap[frame.id] ELSE <<>>

SetTop(frame) == [stack EXCEPT ![Len(stack)] = frame]

\* links.forEach (lines 249-257) has gone through every link
Finished_Early(frame) == frame.index > 1 \/ LinksOf(frame) = <<>>

Finished(frame) == frame.index > Len(LinksOf(frame))

\* handlers.get(this.scope): is there a handler for the scope
registrationHandler_AnyScope(service, s) == DOMAIN service.handlers # {}

registrationHandler(service, s) == s \in DOMAIN service.handlers

\* registerAssociated(), line 251: this.register(target)
registerAssociated ==
    /\ phase = "running"
    /\ stack # <<>>
    /\ ~Top.called
    /\ ~Finished(Top)
    /\ register(LinksOf(Top)[Top.index].target, SetTop([Top EXCEPT !.called = TRUE]))
    /\ UNCHANGED << registry, services, env, scope, order,
                    requirements, sideEffects, cursor, log, previous >>

\* registerAssociated(), line 252: the provisionable the link's handler is given
Provisionable_Bare(frame) == [provisionables[frame.id] EXCEPT !.provisions = EmptyObj]

Provisionable(frame) == provisionables[frame.id]

\* the link's handler, with an output that is kept only when the name has none
handler_KeepFirst ==
    /\ phase = "running"
    /\ stack # <<>>
    /\ Top.called
    /\ LET link == LinksOf(Top)[Top.index]
           provisionable == Provisionable(Top)
           linked == [provisionables[link.target] EXCEPT !.provisions = returned]
           out == Associated(link.name, linked)
       IN  /\ log' = Append(log,
                  [kind |-> "association", id |-> Top.id, call |-> Top.call,
                   name |-> link.name,
                   target |-> link.target, stage |-> Top.stage,
                   linked |-> Seen(linked), seen |-> Seen(provisionable),
                   out |-> out])
           /\ stack' = SetTop([Top EXCEPT
                                  !.output = IF link.name \in DOMAIN @
                                             THEN @ ELSE Assign(@, link.name, out),
                                  !.index = @ + 1,
                                  !.called = FALSE])
    /\ UNCHANGED << registry, services, env, scope, order, provisionables,
                    requirements, sideEffects, phase, error, cursor, returned,
                    calls, returns, previous >>

\* registerAssociated(), lines 252-256: the link's handler and its output
handler ==
    /\ phase = "running"
    /\ stack # <<>>
    /\ Top.called
    /\ LET link == LinksOf(Top)[Top.index]
           provisionable == Provisionable(Top)
           linked == [provisionables[link.target] EXCEPT !.provisions = returned]
           out == Associated(link.name, linked)
       IN  /\ log' = Append(log,
                  [kind |-> "association", id |-> Top.id, call |-> Top.call,
                   name |-> link.name,
                   target |-> link.target, stage |-> Top.stage,
                   linked |-> Seen(linked), seen |-> Seen(provisionable),
                   out |-> out])
           /\ stack' = SetTop([Top EXCEPT !.output = Assign(@, link.name, out),
                                          !.index = @ + 1,
                                          !.called = FALSE])
    /\ UNCHANGED << registry, services, env, scope, order, provisionables,
                    requirements, sideEffects, phase, error, cursor, returned,
                    calls, returns, previous >>

\* register() that does not mark the provisionable as registered before its
\* side effects are resolved
provision_NotYetRegistered ==
    /\ phase = "running"
    /\ stack # <<>>
    /\ Top.stage = "requirements"
    /\ ~Top.called
    /\ Finished(Top)
    /\ LET id == Top.id
           provisionable == [provisionables[id] EXCEPT !.requirements = Top.output]
           unmet == assertRequirementsSatisfied(provisionable, scope)
           service == ServiceOf(registry, provisionable)
           hasHandler == registrationHandler(service, scope)
       IN  IF unmet # Undefined
           THEN /\ Throw("requirement", unmet, service.type)
                /\ provisionables' = [provisionables EXCEPT ![id] = provisionable]
                /\ UNCHANGED << stack, log >>
           ELSE /\ provisionables' =
                      [provisionables EXCEPT ![id] =
                          [provisionable EXCEPT
                              !.provisions = IF hasHandler
                                             THEN Provisioned(id) ELSE EmptyObj,
                              !.registered = FALSE]]
                /\ log' = IF hasHandler
                          THEN Append(log, [kind |-> "scope", id |-> id,
                                            call |-> Top.call,
                                            seen |-> Seen(provisionable)])
                          ELSE log
                /\ stack' = SetTop([Top EXCEPT !.stage = "sideEffects", !.index = 1,
                                               !.output = EmptyObj])
                /\ UNCHANGED << phase, error >>
    /\ UNCHANGED << registry, services, env, scope, order, requirements,
                    sideEffects, cursor, returned, calls, returns, previous >>

\* register(), lines 211-224: the collected requirements are stored and
\* asserted, then the handler of the scope (if any) provisions the service
provision ==
    /\ phase = "running"
    /\ stack # <<>>
    /\ Top.stage = "requirements"
    /\ ~Top.called
    /\ Finished(Top)
    /\ LET id == Top.id
           provisionable == [provisionables[id] EXCEPT !.requirements = Top.output]
           unmet == assertRequirementsSatisfied(provisionable, scope)
           service == ServiceOf(registry, provisionable)
           hasHandler == registrationHandler(service, scope)
       IN  IF unmet # Undefined
           THEN /\ Throw("requirement", unmet, service.type)
                /\ provisionables' = [provisionables EXCEPT ![id] = provisionable]
                /\ UNCHANGED << stack, log >>
           ELSE /\ provisionables' =
                      [provisionables EXCEPT ![id] =
                          [provisionable EXCEPT
                              !.provisions = IF hasHandler
                                             THEN Provisioned(id) ELSE EmptyObj,
                              !.registered = TRUE]]
                /\ log' = IF hasHandler
                          THEN Append(log, [kind |-> "scope", id |-> id,
                                            call |-> Top.call,
                                            seen |-> Seen(provisionable)])
                          ELSE log
                /\ stack' = SetTop([Top EXCEPT !.stage = "sideEffects", !.index = 1,
                                               !.output = EmptyObj])
                /\ UNCHANGED << phase, error >>
    /\ UNCHANGED << registry, services, env, scope, order, requirements,
                    sideEffects, cursor, returned, calls, returns, previous >>

\* register(), lines 227-232: the side effects are stored and the provisions
\* returned to the caller
registered ==
    /\ phase = "running"
    /\ stack # <<>>
    /\ Top.stage = "sideEffects"
    /\ ~Top.called
    /\ Finished(Top)
    /\ provisionables' = [provisionables EXCEPT ![Top.id].sideEffects = Top.output]
    /\ returned' = provisionables[Top.id].provisions
    /\ returns' = Append(returns, [id |-> Top.id, call |-> Top.call,
                                   provisions |-> provisionables[Top.id].provisions])
    /\ stack' = SubSeq(stack, 1, Len(stack) - 1)
    /\ UNCHANGED << registry, services, env, scope, order, requirements,
                    sideEffects, phase, error, cursor, calls, log, previous >>

Next ==
    \/ process
    \/ forEach
    \/ registerAssociated
    \/ handler
    \/ provision
    \/ registered
    \/ toObject

Spec == Init /\ [][Next]_vars

\* ------------------------------------------------------- another loop order

Orders ==
    { [i \in DOMAIN order |-> order[p[i]]] : p \in Permutations(DOMAIN order) }

\* process() is run once more over the same provisionables and links, with
\* provisionables.forEach (line 127) visiting them in any order
Restart ==
    /\ phase \in {"done", "failed"}
    /\ previous = <<>>
    /\ \E o \in Orders :
          previous' = << [loop |-> o, phase |-> phase, error |-> error, log |-> log,
                          provisionables |-> provisionables] >>
    /\ provisionables' = setupProvisionables(registry, services, scope).provisionables
    /\ phase' = "constructed"
    /\ error' = NoError
    /\ cursor' = 0
    /\ stack' = <<>>
    /\ returned' = Undefined
    /\ calls' = 0
    /\ log' = <<>>
    /\ returns' = <<>>
    /\ UNCHANGED << registry, services, env, scope, order, requirements,
                    sideEffects >>

SpecOrders == Init /\ [][Next \/ Restart]_vars

SpecMonitoring == InitMonitoring /\ [][Next]_vars

\* --------------------------------------------------------------- deployment

\* the project's services before an operation is built from them
Project ==
    \E reg \in Registries("deployable") : \E srvs \in ServiceLists :
    \E e \in Environments :
        /\ registry = reg
        /\ services = srvs
        /\ env = e
        /\ scope = "deployable"
        /\ order = <<>>
        /\ provisionables = EmptyObj
        /\ requirements = EmptyObj
        /\ sideEffects = EmptyObj
        /\ phase = "project"
        /\ error = NoError
        /\ cursor = 0
        /\ stack = <<>>
        /\ returned = Undefined
        /\ calls = 0
        /\ log = <<>>
        /\ returns = <<>>
        /\ previous = <<>>

\* validateServiceConfig: the configuration validates against the schema of
\* the definition the registry has for it
validateServiceConfig(reg, cfg) == validate(reg[fromConfig(cfg)], cfg)

validateServices_Off(reg, srvs) == <<>>

\* validateServices(): the configurations that fail, in the order of the list
validateServices(reg, srvs) ==
    SelectSeq(srvs, LAMBDA cfg : ~validateServiceConfig(reg, cfg))

\* deployment(project, stage): the services are validated, then the operation
\* is built from them for the 'deployable' scope
deployment ==
    /\ phase = "project"
    /\ LET invalid == validateServices(registry, services)
           op == setupProvisionables(registry, services, "deployable")
       IN  IF invalid # <<>>
           THEN /\ Throw("validation", Undefined, fromConfig(Head(invalid)))
                /\ UNCHANGED << order, provisionables, requirements, sideEffects >>
           ELSE /\ phase' = "constructed"
                /\ order' = op.order
                /\ provisionables' = op.provisionables
                /\ requirements' = op.requirements
                /\ sideEffects' = op.sideEffects
                /\ UNCHANGED error
    /\ UNCHANGED << registry, services, env, scope, cursor, stack, returned, calls,
                    log, returns, previous >>

SpecDeployment == Project /\ [][deployment \/ Next]_vars

\* -------------------------------------------------------------- definitions

\* how many behaviors are applied to a core service
MaxBehaviors == 3

\* a core service no behavior was applied to yet
Definition ==
    /\ registry = [t \in {"mysql"} |-> getCoreService(t)]
    /\ services = <<>>
    /\ env = {}
    /\ scope = "deployable"
    /\ order = <<>>
    /\ provisionables = EmptyObj
    /\ requirements = EmptyObj
    /\ sideEffects = EmptyObj
    /\ phase = "definition"
    /\ error = NoError
    /\ cursor = 0
    /\ stack = <<>>
    /\ returned = Undefined
    /\ calls = 0
    /\ log = <<>>
    /\ returns = <<>>
    /\ previous = <<>>

\* the definition the behaviors are applied to
Service == registry["mysql"]

HandlerNames == {"onDeploy", "registerPrerequisites"}

\* withHandler(scope, handler)(service)
withHandlerApplied ==
    /\ phase = "definition"
    /\ Len(log) < MaxBehaviors
    /\ \E s \in Scopes : \E h \in HandlerNames :
          /\ log' = Append(log, [kind |-> "withHandler", scope |-> s, handler |-> h])
          /\ IF handlersHas(Service, s)
             THEN /\ Throw("handler", s, Service.type)
                  /\ UNCHANGED registry
             ELSE /\ registry' = [registry EXCEPT !["mysql"] = withHandler(s, h, @)]
                  /\ UNCHANGED << phase, error >>
    /\ UNCHANGED << services, env, scope, order, provisionables, requirements,
                    sideEffects, cursor, stack, returned, calls, returns, previous >>

\* the declarations given to associate: a requirement of the provider, a side
\* effect without a target type and without a requirement key, and a side
\* effect of the databases
Declarations ==
    UNION { { [name |-> n, with |-> "provider", where |-> Undefined,
               requirement |-> TRUE, handler |-> "getProviderOutput"],
              [name |-> n, with |-> Undefined, where |-> "sameRegion",
               handler |-> "onLinked"],
              [name |-> n, with |-> "mysql", where |-> "sameRegion",
               requirement |-> FALSE, handler |-> "onDatabase"] } : n \in {"a", "b"} }

\* associate({ [s]: { [name]: declaration } })(service)
associateApplied ==
    /\ phase = "definition"
    /\ Len(log) < MaxBehaviors
    /\ \E s \in {"deployable", "destroyable"} : \E d \in Declarations :
          /\ log' = Append(log, [kind |-> "associate", scope |-> s, declaration |-> d])
          /\ registry' = [registry EXCEPT !["mysql"] = associate(@, s, << d >>)]
    /\ UNCHANGED << services, env, scope, order, provisionables, requirements,
                    sideEffects, phase, error, cursor, stack, returned, calls,
                    returns, previous >>

Behave ==
    \/ withHandlerApplied
    \/ associateApplied

SpecDefinition == Definition /\ [][Behave]_vars

\* ------------------------------------------------- the schema of a definition

\* a core service whose schema the behaviors compose
SchemaDefinition ==
    /\ registry = [t \in {"mysql"} |-> getCoreService(t)]
    /\ services = <<>> /\ env = {} /\ scope = "deployable" /\ order = <<>>
    /\ provisionables = EmptyObj /\ requirements = EmptyObj /\ sideEffects = EmptyObj
    /\ phase = "schema" /\ error = NoError /\ cursor = 0 /\ stack = <<>>
    /\ returned = Undefined /\ calls = 0 /\ log = <<>> /\ returns = <<>>
    /\ previous = <<>>

\* the schemas handed to withSchema and mergeJsonSchemas: what the mysql
\* service adds to the database schema, two sizings that require fields, two
\* that link the service by default, and additions that carry a root
\* additionalProperties
Additions ==
    { ("properties" :>
          (("type" :> [type |-> "string", const |-> "mysql"])
           @@ ("version" :> [type |-> "string", default |-> "8.0",
                             enum |-> <<"8.0", "5.7">>]))),
      ("type" :> "object") @@ ("required" :> <<"name", "region">>)
          @@ ("properties" :>
                ("size" :> [type |-> "string", enum |-> <<"small", "medium">>,
                            default |-> "small"])),
      ("type" :> "object") @@ ("required" :> <<"region", "size">>)
          @@ ("properties" :>
                ("size" :> [type |-> "string", enum |-> <<"large">>, default |-> "large"])) }
    \cup
    { ("type" :> "object")
          @@ ("properties" :> ("links" :> [type |-> "array", default |-> links]))
        : links \in { <<"db", "cache">>, <<"api">> } }
    \cup
    { ("type" :> "object") @@ ("additionalProperties" :> open)
          @@ ("properties" :> ("tags" :> [type |-> "object"])) : open \in BOOLEAN }

\* one behavior applied to the definition: the log keeps the schema it was
\* applied to
Composed(kind, srv) ==
    /\ phase = "schema"
    /\ Len(log) < MaxBehaviors
    /\ log' = Append(log, [kind |-> kind, source |-> Service.schema])
    /\ registry' = [registry EXCEPT !["mysql"] = srv]
    /\ UNCHANGED << services, env, scope, order, provisionables, requirements,
                    sideEffects, phase, error, cursor, stack, returned, calls,
                    returns, previous >>

\* a schema merged into the definition's: the log keeps both
Added(kind, mods, schema) ==
    /\ phase = "schema"
    /\ Len(log) < MaxBehaviors
    /\ log' = Append(log, [kind |-> kind, source |-> Service.schema, mods |-> mods])
    /\ registry' = [registry EXCEPT !["mysql"].schema = schema]
    /\ UNCHANGED << services, env, scope, order, provisionables, requirements,
                    sideEffects, phase, error, cursor, stack, returned, calls,
                    returns, previous >>

inRegionsApplied ==
    \E regions \in { <<"eu", "us">>, <<"us">> } :
        Composed("inRegions", inRegions(regions, regions[1], Service))

sizeableApplied ==
    \E sizes \in { <<"small", "medium", "large">>, <<"xlarge">> } :
        Composed("sizeable", sizeable(sizes, sizes[1], Service))

storeableApplied == Composed("storeable", storeable(30, 1, 100000, Service))

connectableApplied == Composed("connectable", connectable(3306, 1, 65535, Service))

multiNodeApplied == Composed("multiNode", multiNode(1, 1, 10000, Service))

versionedApplied ==
    Composed("versioned", versioned(<<"8.0", "5.7">>, "8.0", Service))

ofEngineApplied == Composed("ofEngine", ofEngine("mysql", Service))

withSchemaApplied ==
    \E mods \in Additions :
        Added("withSchema", mods, withSchema(mods, Service).schema)

\* static schema() of a database class: mergeJsonSchemas(super.schema(), target)
mergeJsonSchemasApplied ==
    \E target \in Additions :
        Added("mergeJsonSchemas", target, mergeJsonSchemas(Service.schema, target))

ComposeSchema ==
    \/ inRegionsApplied
    \/ sizeableApplied
    \/ storeableApplied
    \/ connectableApplied
    \/ multiNodeApplied
    \/ versionedApplied
    \/ ofEngineApplied
    \/ withSchemaApplied
    \/ mergeJsonSchemasApplied

SpecSchema == SchemaDefinition /\ [][ComposeSchema]_vars

\* ----------------------------------------------------------------- identity

\* the same configurations with their keys written in either order
KeyOrders(config) == { config, << config[2], config[1] >> }

WrittenConfigs ==
    UNION { KeyOrders(MkConfig(t, r)) : t \in ServiceTypes, r \in Regions }

\* a project of two services, each written with its keys in some order
WrittenProject ==
    \E reg \in Registries("deployable") : \E c1, c2 \in WrittenConfigs :
        /\ registry = reg
        /\ services = << c1, c2 >>
        /\ env = {"TOKEN"}
        /\ scope = "deployable"
        /\ order = <<>>
        /\ provisionables = EmptyObj
        /\ requirements = EmptyObj
        /\ sideEffects = EmptyObj
        /\ phase = "project"
        /\ error = NoError
        /\ cursor = 0
        /\ stack = <<>>
        /\ returned = Undefined
        /\ calls = 0
        /\ log = <<>>
        /\ returns = <<>>
        /\ previous = <<>>

SpecIdentity == WrittenProject /\ [][deployment \/ Next]_vars

\* ------------------------------------------------- auto-generated attributes

\* A string is the list of its words (kebabCase puts dashes between them, a
\* domain has dots between them); a value that need not be a string comes
\* with its type.
StringOf(words) == << "string", words >>

isString(value) == value[1] = "string"

\* a || b for strings: undefined and the empty string are falsy
OrElse(a, b) == IF a \in {Undefined, ""} THEN b ELSE a

DEFAULT_PROVIDER == "aws"

DEFAULT_REGION == [aws |-> "eu-central-1"]

\* path.basename(process.cwd())
Basename == "workspace"

\* getTopLevelDomain: the last two labels of the domain
getTopLevelDomain(domain) ==
    IF Len(domain) <= 2 THEN domain ELSE SubSeq(domain, Len(domain) - 1, Len(domain))

\* the optional argument: given or not
Given(associated) == associated # <<>>

\* associated?.key
Optional(associated, key) ==
    IF Given(associated) THEN Get(associated[1], key) ELSE Undefined

hasDomain(associated) ==
    /\ Given(associated)
    /\ "domain" \in DOMAIN associated[1]
    /\ isString(associated[1]["domain"])
    /\ associated[1]["domain"][2] # <<>>

\* what a generator returns: null or the attributes
Null == [null |-> TRUE, config |-> EmptyObj]

Generated(config) == [null |-> FALSE, config |-> config]

\* `${project.name || path.basename(process.cwd()) || 'stackmate-app'}-${environment}`
AppName(project, stage) ==
    << OrElse(project.name, OrElse(Basename, "stackmate-app")), stage >>

\* ATTRIBUTE_GENERATOR: the generators that return their attributes or null
dns(project, stage, associated) ==
    IF ~hasDomain(associated) THEN Null
    ELSE LET tld == getTopLevelDomain(associated[1]["domain"][2])
         IN  Generated(
                ("type" :> "dns")
                @@ ("provider" :> OrElse(Get(associated[1], "provider"),
                                         OrElse(project.provider, DEFAULT_PROVIDER)))
                @@ ("region" :> OrElse(Get(associated[1], "region"), project.region))
                @@ ("domain" :> StringOf(tld))
                @@ ("name" :> tld \o <<"dns">>))

ssl(project, stage, associated) ==
    IF ~hasDomain(associated) THEN Null
    ELSE Generated(
            ("type" :> "ssl")
            @@ ("provider" :> OrElse(Get(associated[1], "provider"),
                                     OrElse(project.provider, DEFAULT_PROVIDER)))
            @@ ("domain" :> associated[1]["domain"])
            @@ ("name" :> << Get(associated[1], "name"), "ssl", "certificate" >>))

state(project, stage, associated) ==
    LET provider == OrElse(Get(project.state, "provider"),
                           OrElse(project.provider, DEFAULT_PROVIDER))
    IN  Generated(
            ("type" :> "state") @@ ("provider" :> provider)
            @@ ("name" :> <<"project", "state">>)
            @@ ("region" :> OrElse(Get(project.state, "region"),
                                   OrElse(project.region, DEFAULT_REGION[provider])))
            @@ project.state)

cluster(project, stage, associated) ==
    LET provider == OrElse(Optional(associated, "provider"),
                           OrElse(project.provider, DEFAULT_PROVIDER))
        region == OrElse(Optional(associated, "region"), project.region)
    IN  Generated(
            ("name" :> <<"app", provider>>
                          \o (IF region \in {Undefined, ""} THEN <<>> ELSE <<region>>)
                          \o <<"cluster">>)
            @@ ("type" :> "cluster") @@ ("provider" :> provider) @@ ("region" :> region)
            @@ ("clusterName" :> AppName(project, stage)))

\* ATTRIBUTE_GENERATOR of the version that adds the generated attributes to the
\* default ones: dns and ssl share domainCopy
domainCopy(project, stage, associated) ==
    IF ~hasDomain(associated) THEN Null
    ELSE Generated(
            ("type" :> "dns")
            @@ ("provider" :> OrElse(Get(associated[1], "provider"),
                                     OrElse(project.provider, DEFAULT_PROVIDER)))
            @@ ("region" :> OrElse(Get(associated[1], "region"), project.region))
            @@ ("domain" :> StringOf(getTopLevelDomain(associated[1]["domain"][2])))
            @@ ("name" :> AppName(project, stage)))

stateCopy(project, stage, associated) ==
    Generated(
        ("type" :> "state")
        @@ ("provider" :> OrElse(Get(project.state, "provider"),
                                 OrElse(project.provider, DEFAULT_PROVIDER)))
        @@ ("name" :> <<"project", "state">>)
        @@ project.state)

clusterCopy(project, stage, associated) ==
    Generated(
        ("type" :> "cluster")
        @@ ("provider" :> OrElse(Optional(associated, "provider"),
                                 OrElse(project.provider, DEFAULT_PROVIDER)))
        @@ ("region" :> OrElse(Optional(associated, "region"), project.region))
        @@ ("name" :> AppName(project, stage)))

\* the service types ATTRIBUTE_GENERATOR has a generator for
Generators == {"dns", "ssl", "state", "cluster"}

\* the attributes every service gets when nothing else is known
DefaultAttributes(type, project, associated) ==
    LET provider == OrElse(Optional(associated, "provider"),
                           OrElse(project.provider, DEFAULT_PROVIDER))
    IN  ("name" :> << provider, type, "service" >>) @@ ("provider" :> provider)
        @@ ("type" :> type)
        @@ ("region" :> OrElse(Optional(associated, "region"), project.region))

\* getAutoGeneratedAttributes: the generator's result if the type has one,
\* the default attributes otherwise
getAutoGeneratedAttributes(type, project, stage, associated) ==
    IF type = "dns" THEN dns(project, stage, associated)
    ELSE IF type = "ssl" THEN ssl(project, stage, associated)
    ELSE IF type = "state" THEN state(project, stage, associated)
    ELSE IF type = "cluster" THEN cluster(project, stage, associated)
    ELSE Generated(DefaultAttributes(type, project, associated))

\* getAutoGeneratedAttributes of the other version: the default attributes
\* with the generated ones spread over them
getAutoGeneratedAttributesUnion(type, project, stage, associated) ==
    LET generated ==
            IF type \in {"dns", "ssl"} THEN domainCopy(project, stage, associated)
            ELSE IF type = "state" THEN stateCopy(project, stage, associated)
            ELSE IF type = "cluster" THEN clusterCopy(project, stage, associated)
            ELSE Null
    IN  Generated(generated.config @@ DefaultAttributes(type, project, associated))

\* the two versions of getAutoGeneratedAttributes the repository has
Versions == {"generated", "union"}

GeneratedTypes == Generators \cup {"mysql"}

Projects ==
    { [name |-> n, provider |-> p, region |-> r, state |-> s] :
        n \in {Undefined, "shop"}, p \in {Undefined, "aws"}, r \in {Undefined, "eu"},
        s \in { ("bucket" :> "tfstate"),
                ("bucket" :> "tfstate") @@ ("provider" :> "aws") @@ ("region" :> "us") } }

\* the configuration of the service a generated one belongs to: not given, or
\* an application with or without a domain
AssociatedConfigs ==
    { <<>> } \cup
    { << ("type" :> "application") @@ ("name" :> "app") @@ ("provider" :> p)
         @@ ("region" :> r) >> : p \in {Undefined, "aws"}, r \in {Undefined, "us"} }
    \cup
    { << ("type" :> "application") @@ ("name" :> "app") @@ ("provider" :> p)
         @@ ("region" :> r) @@ ("domain" :> d) >> :
        p \in {Undefined, "aws"}, r \in {Undefined, "us"},
        d \in { StringOf(<<>>), StringOf(<<"app", "example", "com">>), <<"number", 0>> } }

\* the arguments of one call of getAutoGeneratedAttributes
Arguments ==
    /\ registry = EmptyObj /\ services = <<>> /\ env = {} /\ scope = "deployable"
    /\ order = <<>> /\ provisionables = EmptyObj /\ requirements = EmptyObj
    /\ sideEffects = EmptyObj /\ phase = "arguments" /\ error = NoError /\ cursor = 0
    /\ stack = <<>> /\ returned = Undefined /\ calls = 0 /\ returns = <<>>
    /\ previous = <<>>
    /\ \E v \in Versions : \E type \in GeneratedTypes : \E project \in Projects :
        \E associated \in AssociatedConfigs :
          log = << [version |-> v, type |-> type, project |-> project,
                    environment |-> "production", associated |-> associated] >>

deriveConfig ==
    /\ phase = "arguments"
    /\ phase' = "derived"
    /\ returned' =
          IF log[1].version = "generated"
          THEN getAutoGeneratedAttributes(log[1].type, log[1].project,
                                          log[1].environment, log[1].associated)
          ELSE getAutoGeneratedAttributesUnion(log[1].type, log[1].project,
                                               log[1].environment, log[1].associated)
    /\ UNCHANGED << registry, services, env, scope, order, provisionables, requirements,
                    sideEffects, error, cursor, stack, calls, log, returns, previous >>

SpecGenerator == Arguments /\ [][deriveConfig]_vars

\* --------------------------------------------------------------- vocabulary

Ids == DOMAIN provisionables

HasHandler(id) == scope \in DOMAIN ServiceOf(registry, provisionables[id]).handlers

\* the log entries of one kind
ScopeEvents == { i \in DOMAIN log : log[i].kind = "scope" }

RequirementEvents ==
    { i \in DOMAIN log : log[i].kind = "association" /\ log[i].stage = "requirements" }

SideEffectEvents ==
    { i \in DOMAIN log : log[i].kind = "association" /\ log[i].stage = "sideEffects" }

Links(targetMap, id) == IF id \in DOMAIN targetMap THEN targetMap[id] ELSE <<>>

\* the nodes a node has a requirement link / a side-effect link / any link to
RequirementTargets(id) == { l.target : l \in Range(Links(requirements, id)) }

SideEffectTargets(id) == { l.target : l \in Range(Links(sideEffects, id)) }

Targets(id) == RequirementTargets(id) \cup SideEffectTargets(id)

\* the nodes reachable from id over one or more links
RECURSIVE ReachableIn(_, _)
ReachableIn(frontier, seen) ==
    LET next == UNION { Targets(n) : n \in frontier } \ seen
    IN  IF next = {} THEN seen ELSE ReachableIn(next, seen \cup next)

Reachable(id) == ReachableIn({id}, {})

\* no node reaches itself over the links of either kind
Acyclic == \A id \in Ids : id \notin Reachable(id)

Ended == phase \in {"done", "failed"}

\* ---------------------------------------------------------------------- C1

\* C1: within one process() run the scope handler of every node (that has one)
\* is invoked exactly once: never more than once while process() runs, and once
\* when process() has returned.
C1_ScopeHandlerOnce ==
    /\ \A id \in Ids : Cardinality(ScopeCalls(id)) <= 1
    /\ phase = "done" =>
          \A id \in Ids : HasHandler(id) => Cardinality(ScopeCalls(id)) = 1

\* ---------------------------------------------------------------------- C2

\* C2: when the handler of a requirement link N->M is invoked, register(M) has
\* returned: M is registered and, if M has a handler for the scope, that handler
\* has run and M carries its output; and when N's scope handler is invoked, the
\* handler of every requirement link of N has been invoked by the same
\* register call.
C2_RequirementsBeforeHandler ==
    /\ \A i \in RequirementEvents :
          /\ log[i].linked.registered
          /\ HasHandler(log[i].target) =>
                /\ \E j \in ScopeEvents : j < i /\ log[j].id = log[i].target
                /\ log[i].linked.provisions # EmptyObj
    /\ \A i \in ScopeEvents :
          \A l \in Range(Links(requirements, log[i].id)) :
             \E j \in RequirementEvents :
                /\ j < i
                /\ log[j].call = log[i].call
                /\ log[j].id = log[i].id
                /\ log[j].name = l.name
                /\ log[j].target = l.target

\* a scope handler ran after two requirement links of its node were handled
C2_Witness ==
    \E i \in ScopeEvents : \E j, k \in RequirementEvents :
        /\ j < k /\ k < i
        /\ log[j].call = log[i].call /\ log[k].call = log[i].call
        /\ log[j].target # log[k].target

\* ---------------------------------------------------------------------- C3

\* the associations a node's definition declares for the active scope
Declared(id) == ServiceOf(registry, provisionables[id]).associations[scope]

\* the requirement associations of a node that no node of the set matches
Unmatched(id) ==
    { d.name : d \in { a \in Range(Declared(id)) :
                         /\ a.requirement
                         /\ \A l \in Range(Links(requirements, id)) : l.name # a.name } }

Gated == { id \in Ids : Unmatched(id) # {} }

\* an unmatched requirement is what process() reported
RequirementReported ==
    /\ error.kind = "requirement"
    /\ \E id \in Gated : /\ error.name \in Unmatched(id)
                         /\ error.service = provisionables[id].service

\* neither the scope handler of a gated node nor any of its side-effect
\* handlers has been invoked
GatedUntouched ==
    \A id \in Gated :
        /\ ScopeCalls(id) = {}
        /\ \A i \in SideEffectEvents : log[i].id # id

\* C3 as stated: with a requirement association that no node matches,
\* process() ends in the missing-requirement error naming the association and
\* the service, and the node's own handler and side-effect handlers never run.
C3_Original ==
    Gated # {} =>
        /\ phase # "done"
        /\ Ended => RequirementReported
        /\ GatedUntouched

\* C3, amended: process() never completes; it aborts with the
\* missing-requirement error naming the association and the service unless a
\* missing environment variable, a validation failure or the exhaustion of the
\* call stack aborts it first; the node's own handler and side-effect handlers
\* never run.
C3_RequirementGate ==
    Gated # {} =>
        /\ phase # "done"
        /\ Ended => \/ RequirementReported
                    \/ error.kind \in {"environment", "validation", "RangeError"}
        /\ GatedUntouched

\* process() aborted on the unmatched requirement of a node that has side-effect
\* links, after other services were provisioned
C3_Witness ==
    /\ RequirementReported
    /\ log # <<>>
    /\ \E id \in Gated : /\ Links(sideEffects, id) # <<>>
                         /\ stack # <<>> /\ Top.id = id

\* ---------------------------------------------------------------------- C4

\* the variables some participating definition marks as required
MarkedRequired ==
    { e.name : e \in { v \in UNION { Range(ServiceOf(registry, provisionables[id]).environment)
                                       : id \in Ids } : v.required } }

Untouched ==
    /\ log = <<>>
    /\ calls = 0
    /\ \A id \in Ids : provisionables[id] = getProvisionable(provisionables[id].config)

\* C4: once process() is past its first line, a variable that a participating
\* definition requires and the environment lacks has made it fail with the
\* missing-environment error, before any register call: no handler has run and
\* no node has changed.
C4_EnvironmentGate ==
    (phase # "constructed" /\ MarkedRequired \ env # {}) =>
        /\ phase = "failed"
        /\ error.kind = "environment"
        /\ Untouched

\* ---------------------------------------------------------------------- C6

\* the nodes whose register call is still on the stack
Running == { stack[k].id : k \in DOMAIN stack }

\* the last log entry of a node's links of one stage under one name
LastEvent(events, id, name) ==
    CHOOSE i \in events :
        /\ log[i].id = id /\ log[i].name = name
        /\ \A j \in events : (log[j].id = id /\ log[j].name = name) => j <= i

\* what the scope handler invocation logged at j returned
Returned(j) ==
    [resources |-> log[j].id,
     call |-> Cardinality({ k \in ScopeCalls(log[j].id) : k <= j })]

\* C6: the handler of a side-effect link N->M is invoked after N's scope handler
\* has returned (N registered, N.provisions set) and after register(M) has
\* returned; it is given N with its own provisions; and what it returns is
\* stored under the association's name in N.sideEffects.
C6_SideEffectsAfterHandler ==
    /\ \A i \in SideEffectEvents :
          /\ log[i].seen.registered
          /\ log[i].linked.registered
          /\ IF HasHandler(log[i].id)
             THEN \E j \in ScopeCalls(log[i].id) :
                     /\ j < i
                     /\ log[j].call = log[i].call
                     /\ log[i].seen.provisions = Returned(j)
             ELSE log[i].seen.provisions = EmptyObj
    /\ \A k \in DOMAIN stack :
          stack[k].stage = "sideEffects" =>
             \A n \in 1..(stack[k].index - 1) :
                LET name == LinksOf(stack[k])[n].name
                IN  /\ name \in DOMAIN stack[k].output
                    /\ \E i \in SideEffectEvents :
                          /\ log[i].call = stack[k].call /\ log[i].name = name
                          /\ log[i].out = stack[k].output[name]
    /\ \A id \in Ids \ Running :
          provisionables[id].registered =>
             \A l \in Range(Links(sideEffects, id)) :
                /\ l.name \in DOMAIN provisionables[id].sideEffects
                /\ provisionables[id].sideEffects[l.name]
                      = log[LastEvent(SideEffectEvents, id, l.name)].out

\* a provisioned node's side-effect handler has run and its output is stored
C6_Witness ==
    \E id \in Ids \ Running :
        /\ HasHandler(id)
        /\ provisionables[id].registered
        /\ provisionables[id].sideEffects # EmptyObj
        /\ \E i \in SideEffectEvents : log[i].id = id /\ log[i].target # id

\* ---------------------------------------------------------------------- C7

Handlerless == { id \in Ids : ~HasHandler(id) }

\* C7: a node without a handler for the active scope is registered with empty
\* provisions and no handler call, and it is linked like any other node: every
\* declaration that applies to it has its link, and the link's handler is given
\* the registered node with its empty provisions.
C7_ScopeOptional ==
    \A id \in Handlerless :
        /\ ScopeCalls(id) = {}
        /\ provisionables[id].provisions = EmptyObj
        /\ phase = "done" => provisionables[id].registered
        /\ \A n \in Ids : \A a \in Range(Declared(n)) :
              Applies(registry, a, provisionables[n], provisionables[id]) =>
                 \E l \in Range(Links(requirements, n)) \cup Range(Links(sideEffects, n)) :
                    l.name = a.name /\ l.target = id
        /\ \A i \in DOMAIN log :
              (log[i].kind = "association" /\ log[i].target = id) =>
                 /\ log[i].linked.registered
                 /\ log[i].linked.provisions = EmptyObj

\* process() returned after the handler of a link to a handlerless node ran
C7_Witness ==
    /\ phase = "done"
    /\ \E id \in Handlerless : \E i \in DOMAIN log :
          /\ log[i].kind = "association"
          /\ log[i].target = id
          /\ log[i].id # id

\* ---------------------------------------------------------------------- C8

HasLink(n, a, m) ==
    \E l \in Range(Links(requirements, n)) \cup Range(Links(sideEffects, n)) :
        l.name = a.name /\ l.target = m

\* what spec and claim say makes a link: another node, of the association's
\* type if it names one, for which the predicate (if any) holds
Matches(n, a, m) ==
    /\ m # n
    /\ a.with = Undefined \/ a.with = ServiceOf(registry, provisionables[m]).type
    /\ a.where = Undefined
          \/ IsAssociated(a.where, provisionables[n].config, provisionables[m].config)

\* C8: a link (N, A, M) exists exactly when M is another node than N, A's target
\* type is unset or M's type, and A's predicate holds on the two configurations.
C8_Resolution ==
    \A n \in Ids : \A a \in Range(Declared(n)) : \A m \in Ids :
        HasLink(n, a, m) <=> Matches(n, a, m)

\* ---------------------------------------------------------------------- C9

\* how many links of a node's list go to `target` under `name`
Count(links, name, target) ==
    Cardinality({ k \in DOMAIN links : links[k].name = name /\ links[k].target = target })

\* the position of a node in the iteration order of the node set
Position(id) == CHOOSE i \in DOMAIN order : order[i] = id

\* the association handler invocations of one register call in one stage, in
\* the order they were made
Invocations(call, stage) ==
    SelectSeq([i \in DOMAIN log |-> i],
              LAMBDA i : /\ log[i].kind = "association"
                         /\ log[i].call = call
                         /\ log[i].stage = stage)

StageMap(stage) == IF stage = "requirements" THEN requirements ELSE sideEffects

\* C9: every applying (N, A, M) has exactly one link, in the requirement links
\* when A is a requirement and in the side-effect links otherwise, never in
\* both; under one association name N's links follow the iteration order of
\* the node set; and a register call invokes the handlers of its links in the
\* order in which they are stored.
C9_LinksStoredAndInvokedInOrder ==
    /\ \A n \in Ids : \A a \in Range(Declared(n)) : \A m \in Ids :
          LET own == IF a.requirement THEN requirements ELSE sideEffects
              other == IF a.requirement THEN sideEffects ELSE requirements
              applies == Applies(registry, a, provisionables[n], provisionables[m])
          IN  /\ Count(Links(own, n), a.name, m) = IF applies THEN 1 ELSE 0
              /\ Count(Links(other, n), a.name, m) = 0
    /\ \A n \in Ids : \A stage \in {"requirements", "sideEffects"} :
          LET links == Links(StageMap(stage), n)
          IN  \A j, k \in DOMAIN links :
                 (j < k /\ links[j].name = links[k].name) =>
                     Position(links[j].target) < Position(links[k].target)
    /\ \A i \in DOMAIN log :
          log[i].kind = "association" =>
             LET made == Invocations(log[i].call, log[i].stage)
                 links == Links(StageMap(log[i].stage), log[i].id)
             IN  /\ Len(made) <= Len(links)
                 /\ \A k \in DOMAIN made :
                       /\ log[made[k]].id = log[i].id
                       /\ log[made[k]].name = links[k].name
                       /\ log[made[k]].target = links[k].target
    /\ phase = "done" =>
          \A n \in Ids : \A stage \in {"requirements", "sideEffects"} :
             \A l \in Range(Links(StageMap(stage), n)) :
                \E i \in DOMAIN log :
                   /\ log[i].kind = "association" /\ log[i].stage = stage
                   /\ log[i].id = n /\ log[i].name = l.name /\ log[i].target = l.target

\* process() returned and some node has two links under one name, to two nodes
C9_Witness ==
    /\ phase = "done"
    /\ \E n \in Ids : \E stage \in {"requirements", "sideEffects"} :
          LET links == Links(StageMap(stage), n)
          IN  \E j, k \in DOMAIN links :
                 /\ j < k
                 /\ links[j].name = links[k].name
                 /\ links[j].target # links[k].target
                 /\ Len(Invocations(1, stage)) >= 2

\* --------------------------------------------------------------------- C10

\* the register calls that found their node registered
Memoized == { j \in DOMAIN returns : returns[j].call = 0 }

\* a register call returns from the memo check in this step
MemoStep ==
    /\ Len(returns') = Len(returns) + 1
    /\ returns'[Len(returns')].call = 0

\* C10: once a register(N) has returned, every later register(N) returns the
\* same provisions, and it does so without invoking a handler, without
\* validation (it cannot fail) and without changing a field of any node.
C10_RegisterIdempotent ==
    /\ [](\A i \in DOMAIN returns : \A j \in Memoized :
             (i < j /\ returns[i].id = returns[j].id) =>
                 returns[j].provisions = returns[i].provisions)
    /\ [][MemoStep => UNCHANGED << log, provisionables, phase, error, calls >>]_vars

\* ---------------------------------------------------------------------- C5

Before == previous[1]

InvokedIn(history, id) ==
    Cardinality({ i \in DOMAIN history : history[i].kind = "scope" /\ history[i].id = id })

AssociatedIn(history, id, name, target) ==
    Cardinality({ i \in DOMAIN history : /\ history[i].kind = "association"
                                         /\ history[i].id = id
                                         /\ history[i].name = name
                                         /\ history[i].target = target })

SameInvocations ==
    \A id \in Ids :
        /\ InvokedIn(log, id) = InvokedIn(Before.log, id)
        /\ \A a \in Range(Declared(id)) : \A m \in Ids :
              AssociatedIn(log, id, a.name, m) = AssociatedIn(Before.log, id, a.name, m)

\* C5: process() run over the same provisionables, links and scope with two
\* orders of its outer loop ends the same way (returns, or throws the same
\* error), invokes every scope handler and every association handler as often,
\* and leaves every node with the same requirements, provisions, sideEffects
\* and registered flag.
C5_OrderIndependent ==
    (previous # <<>> /\ Ended) =>
        /\ phase = Before.phase
        /\ error.kind = Before.error.kind
        /\ error = Before.error
        /\ SameInvocations
        /\ provisionables = Before.provisionables

\* --------------------------------------------------------------------- C11

\* the configurations of the operation's services that their schema rejects
Invalid == { i \in DOMAIN services : ~validateServiceConfig(registry, services[i]) }

\* C11: when the configuration of some service of a deployment fails
\* validation, the operation ends with a validation error and no scope handler
\* and no association handler of any node has been invoked; with every
\* configuration valid no validation error is raised.
C11_ValidationBeforeProvisioning ==
    /\ (Invalid # {} /\ phase # "project") =>
          /\ phase = "failed"
          /\ error.kind = "validation"
          /\ log = <<>>
    /\ error.kind = "validation" => (Invalid # {} /\ log = <<>>)

\* the deployment was refused for a configuration that follows a valid one
C11_Witness ==
    /\ phase = "failed"
    /\ error.kind = "validation"
    /\ \E i \in Invalid : \E j \in DOMAIN services : j < i /\ j \notin Invalid

\* --------------------------------------------------------------------- C12

IsDatabase(id) == Attr(provisionables[id].config, "type") = "mysql"

IsMonitoring(id) == Attr(provisionables[id].config, "type") = "monitoring"

\* a monitoring node and a database with monitoring enabled, of the same
\* provider and region
Monitors(m, d) ==
    /\ IsMonitoring(m)
    /\ IsDatabase(d)
    /\ IsAssociated("isAssociatedWith", provisionables[m].config, provisionables[d].config)

\* how often register went through a node's own provisioning and returned
Registrations(id) ==
    Cardinality({ j \in DOMAIN returns : returns[j].id = id /\ returns[j].call # 0 })

AlertCalls(m, d) ==
    { i \in SideEffectEvents : log[i].id = m /\ log[i].target = d }

\* C12: in a deployment with a monitoring node and a monitored database of its
\* provider and region, nothing of the two runs twice, and when process() has
\* returned the database's scope handler, the monitoring node's provisioning
\* and the alert side effect of the monitoring node on the database have each
\* run exactly once, in whichever order the outer loop reaches the two nodes.
C12_MonitoredDatabaseOnce ==
    \A m, d \in Ids :
        Monitors(m, d) =>
            /\ Cardinality(ScopeCalls(d)) <= 1
            /\ Registrations(m) <= 1
            /\ Cardinality(AlertCalls(m, d)) <= 1
            /\ phase = "done" =>
                  /\ Cardinality(ScopeCalls(d)) = 1
                  /\ Registrations(d) = 1
                  /\ Registrations(m) = 1
                  /\ ScopeCalls(m) = {}
                  /\ Cardinality(AlertCalls(m, d)) = 1
                  /\ \A i \in AlertCalls(m, d) :
                        /\ log[i].name = "mysql"
                        /\ log[i].linked.provisions = provisionables[d].provisions

\* process() returned with the outer loop having reached the database first
C12_Witness ==
    /\ phase = "done"
    /\ \E m, d \in Ids :
          /\ Monitors(m, d)
          /\ Position(d) < Position(m)
          /\ AlertCalls(m, d) # {}

\* process() returned with the outer loop having reached the monitoring node first
C12_WitnessMonitoringFirst ==
    /\ phase = "done"
    /\ \E m, d \in Ids :
          /\ Monitors(m, d)
          /\ Position(m) < Position(d)
          /\ AlertCalls(m, d) # {}

\* --------------------------------------------------------------------- C13

\* two configurations hold the same keys with the same values
SameContent(c1, c2) == Range(c1) = Range(c2)

\* C13: once the provisionables are set up, two configurations of the project
\* have the same node id exactly when they hold the same keys with the same
\* values, in whatever order the keys were written.
C13_IdentityDeterminism ==
    phase # "project" =>
        \A i, j \in DOMAIN services :
            /\ getProvisionable(services[i]).id \in Ids
            /\ SameContent(services[i], services[j])
                  <=> getProvisionable(services[i]).id = getProvisionable(services[j]).id

\* --------------------------------------------------------------------- C14

\* the applications of withHandler for a scope, oldest first
HandlerApplications(s) ==
    SelectSeq(log, LAMBDA b : b.kind = "withHandler" /\ b.scope = s)

\* withHandler is applied in this step
WithHandlerStep ==
    /\ Len(log') = Len(log) + 1
    /\ log'[Len(log')].kind = "withHandler"

\* C14: withHandler for a scope that has a handler fails and leaves the
\* definition as it was, and otherwise gives the definition with its handlers
\* and the new one; so a definition's handler for a scope is always the first
\* one registered for that scope.
C14_OneHandlerPerScope ==
    /\ [](\A s \in Scopes :
            IF HandlerApplications(s) = <<>>
            THEN ~handlersHas(Service, s)
            ELSE /\ handlersHas(Service, s)
                 /\ Service.handlers[s] = HandlerApplications(s)[1].handler)
    /\ [][WithHandlerStep =>
            LET applied == log'[Len(log')]
            IN  IF handlersHas(Service, applied.scope)
                THEN /\ registry' = registry
                     /\ phase' = "failed"
                     /\ error'.kind = "handler"
                ELSE /\ registry'["mysql"].handlers
                           = Assign(Service.handlers, applied.scope, applied.handler)
                     /\ \A s \in DOMAIN Service.handlers :
                           registry'["mysql"].handlers[s] = Service.handlers[s]
                     /\ error' = error]_vars

\* a second handler for a scope was refused
C14_Witness ==
    /\ phase = "failed"
    /\ error.kind = "handler"
    /\ \E s \in Scopes :
          /\ Len(HandlerApplications(s)) = 2
          /\ HandlerApplications(s)[1].handler # HandlerApplications(s)[2].handler
          /\ Service.handlers[s] = HandlerApplications(s)[1].handler

\* ------------------------------------------------------------------- C15

\* what a declaration says: its target type, predicate, requirement flag and
\* handler (a key it does not have is undefined, and the flag then false)
Says(declaration) ==
    [with |-> IF "with" \in DOMAIN declaration THEN declaration.with ELSE Undefined,
     where |-> IF "where" \in DOMAIN declaration THEN declaration.where ELSE Undefined,
     requirement |-> "requirement" \in DOMAIN declaration /\ declaration.requirement,
     handler |-> IF "handler" \in DOMAIN declaration THEN declaration.handler ELSE Undefined]

Named(assocs, name) == SelectSeq(assocs, LAMBDA a : a.name = name)

NotNamed(assocs, name) == SelectSeq(assocs, LAMBDA a : a.name # name)

\* a step of associate that declares a name its scope already has
AssociateAgain ==
    /\ Len(log') = Len(log) + 1
    /\ log'[Len(log')].kind = "associate"
    /\ Named(Service.associations[log'[Len(log')].scope],
             log'[Len(log')].declaration.name) # <<>>

\* C15: when a declaration is registered under a name its scope already has,
\* the definition then holds under that name exactly the later declaration
\* (target type, predicate, requirement flag, handler), and the associations
\* of the other names and scopes are unchanged.
C15_LastRegistrationWins ==
    [][AssociateAgain =>
        LET last == log'[Len(log')]
            after == registry'["mysql"].associations
        IN  /\ Len(Named(after[last.scope], last.declaration.name)) = 1
            /\ Says(Named(after[last.scope], last.declaration.name)[1])
                  = Says(last.declaration)
            /\ NotNamed(after[last.scope], last.declaration.name)
                  = NotNamed(Service.associations[last.scope], last.declaration.name)
            /\ \A t \in Scopes \ {last.scope} :
                  after[t] = Service.associations[t]]_vars

\* the other names and scopes are kept, and the keys the later declaration has
\* take its values
C15_LaterKeysWin ==
    [][AssociateAgain =>
        LET last == log'[Len(log')]
            after == registry'["mysql"].associations
            merged == Named(after[last.scope], last.declaration.name)
        IN  /\ Len(merged) = 1
            /\ merged[1].handler = last.declaration.handler
            /\ "requirement" \in DOMAIN last.declaration
                  => merged[1].requirement = last.declaration.requirement
            /\ last.declaration.with # Undefined => merged[1].with = last.declaration.with
            /\ last.declaration.where # Undefined
                  => merged[1].where = last.declaration.where
            /\ NotNamed(after[last.scope], last.declaration.name)
                  = NotNamed(Service.associations[last.scope], last.declaration.name)
            /\ \A t \in Scopes \ {last.scope} :
                  after[t] = Service.associations[t]]_vars

\* a name declared twice under a scope that also has another name
C15_Witness ==
    \E i, j \in DOMAIN log :
        /\ i < j
        /\ log[i].kind = "associate" /\ log[j].kind = "associate"
        /\ log[i].scope = log[j].scope
        /\ log[i].declaration.name = log[j].declaration.name
        /\ log[i].declaration # log[j].declaration
        /\ Len(Service.associations[log[i].scope]) = 2

\* ------------------------------------------------------------------- C16

PropertiesOf(schema) ==
    IF "properties" \in DOMAIN schema THEN schema["properties"] ELSE EmptyObj

RequiredOf(schema) == IF "required" \in DOMAIN schema THEN schema["required"] ELSE <<>>

\* a step that composes a schema B (the log's mods) onto the schema A it finds
AdditionStep ==
    /\ Len(log') = Len(log) + 1
    /\ "mods" \in DOMAIN log'[Len(log')]

\* the property keys A and B both give a default, and not the same one
BothDefault(A, B) ==
    { p \in DOMAIN PropertiesOf(A) \cap DOMAIN PropertiesOf(B) :
        /\ "default" \in DOMAIN PropertiesOf(A)[p]
        /\ "default" \in DOMAIN PropertiesOf(B)[p]
        /\ PropertiesOf(A)[p]["default"] # PropertiesOf(B)[p]["default"] }

\* C16: composing B onto A gives every property both define with different
\* defaults B's default, and a required list with every required field of A
\* and of B exactly once.
C16_RightBiased ==
    [][AdditionStep =>
        LET A == log'[Len(log')].source
            B == log'[Len(log')].mods
            result == registry'["mysql"].schema
        IN  /\ \A p \in BothDefault(A, B) :
                  result["properties"][p]["default"] = PropertiesOf(B)[p]["default"]
            /\ Range(result["required"]) = Range(RequiredOf(A)) \cup Range(RequiredOf(B))
            /\ \A i, j \in DOMAIN result["required"] :
                  i # j => result["required"][i] # result["required"][j]]_vars

\* the same for the defaults that are not arrays
C16_RightBiasedScalars ==
    [][AdditionStep =>
        LET A == log'[Len(log')].source
            B == log'[Len(log')].mods
            result == registry'["mysql"].schema
        IN  /\ \A p \in BothDefault(A, B) :
                  "default" \notin ArrayKeywords(PropertiesOf(A)[p])
                                    \cap ArrayKeywords(PropertiesOf(B)[p])
                  => result["properties"][p]["default"] = PropertiesOf(B)[p]["default"]
            /\ Range(result["required"]) = Range(RequiredOf(A)) \cup Range(RequiredOf(B))
            /\ \A i, j \in DOMAIN result["required"] :
                  i # j => result["required"][i] # result["required"][j]]_vars

\* ------------------------------------------------------------------- C17

\* C17: in compose(base, addition) a property key both define has the
\* addition's definition, and a key only one defines keeps its definition.
C17_AdditionDefinitionWins ==
    [][AdditionStep =>
        LET base == log'[Len(log')].source
            addition == log'[Len(log')].mods
            merged == registry'["mysql"].schema["properties"]
        IN  /\ DOMAIN merged = DOMAIN PropertiesOf(base) \cup DOMAIN PropertiesOf(addition)
            /\ \A p \in DOMAIN merged :
                  merged[p] = IF p \in DOMAIN PropertiesOf(addition)
                              THEN PropertiesOf(addition)[p]
                              ELSE PropertiesOf(base)[p]]_vars

\* a key only one of them defines keeps its definition, and for a key both
\* define every keyword of the addition but the arrays has the addition's value
C17_AdditionKeywordsWin ==
    [][AdditionStep =>
        LET base == log'[Len(log')].source
            addition == log'[Len(log')].mods
            merged == registry'["mysql"].schema["properties"]
        IN  /\ DOMAIN merged = DOMAIN PropertiesOf(base) \cup DOMAIN PropertiesOf(addition)
            /\ \A p \in DOMAIN merged :
                  IF p \notin DOMAIN PropertiesOf(addition)
                  THEN merged[p] = PropertiesOf(base)[p]
                  ELSE IF p \notin DOMAIN PropertiesOf(base)
                  THEN merged[p] = PropertiesOf(addition)[p]
                  ELSE \A k \in DOMAIN PropertiesOf(addition)[p]
                                  \ ArrayKeywords(PropertiesOf(addition)[p]) :
                          merged[p][k] = PropertiesOf(addition)[p][k]]_vars

\* ------------------------------------------------------------------- C18

Closed(schema) ==
    /\ "additionalProperties" \in DOMAIN schema
    /\ schema["additionalProperties"] = FALSE

\* the additions so far that carry a root additionalProperties
Carriers ==
    { i \in DOMAIN log : /\ "mods" \in DOMAIN log[i]
                         /\ "additionalProperties" \in DOMAIN log[i].mods }

\* C18 as stated: after any sequence of behaviors and schema additions the
\* root additionalProperties is still false.
C18_Original == phase = "schema" => Closed(Service.schema)

\* C18: the root additionalProperties is false after any sequence of
\* behaviors and of schema additions that do not carry the keyword; once an
\* addition carries it, the root has the value of the last one that did.
C18_ClosedUnlessAdditionOpens ==
    phase = "schema" =>
        /\ "additionalProperties" \in DOMAIN Service.schema
        /\ Service.schema["additionalProperties"] =
              IF Carriers = {} THEN FALSE
              ELSE log[CHOOSE i \in Carriers : \A j \in Carriers : j <= i]
                      .mods["additionalProperties"]

\* behaviors and an addition without the keyword, and the root is closed
C18_Witness ==
    /\ Len(log) = MaxBehaviors
    /\ Carriers = {}
    /\ \E i, j \in DOMAIN log :
          /\ log[i].kind \in {"inRegions", "sizeable", "storeable", "connectable",
                               "multiNode", "versioned", "ofEngine"}
          /\ log[j].kind = "withSchema"
    /\ Closed(Service.schema)
    /\ DOMAIN Service.schema["properties"] # DOMAIN getCoreService("mysql").schema["properties"]

\* ------------------------------------------------------------------- C19

Derived == phase = "derived"

\* what the generator of the call's type returned, in the call's version
GeneratorResult ==
    IF log[1].version = "generated"
    THEN getAutoGeneratedAttributes(log[1].type, log[1].project,
                                    log[1].environment, log[1].associated)
    ELSE IF log[1].type \in {"dns", "ssl"}
    THEN domainCopy(log[1].project, log[1].environment, log[1].associated)
    ELSE IF log[1].type = "state"
    THEN stateCopy(log[1].project, log[1].environment, log[1].associated)
    ELSE clusterCopy(log[1].project, log[1].environment, log[1].associated)

\* C19: for a type with a generator the result is the union of the
\* generator's fields and the default fields (provider, region, name, type):
\* a field the generator sets has the generator's value, a default field it
\* leaves unset has the default value.
C19_UnionWithDefaults ==
    Derived /\ log[1].type \in Generators =>
        LET generated == GeneratorResult.config
            defaults == DefaultAttributes(log[1].type, log[1].project, log[1].associated)
        IN  /\ ~returned.null
            /\ DOMAIN returned.config = DOMAIN generated \cup DOMAIN defaults
            /\ \A k \in DOMAIN generated : returned.config[k] = generated[k]
            /\ \A k \in DOMAIN defaults \ DOMAIN generated :
                  returned.config[k] = defaults[k]

\* the same, of the version that spreads the generated attributes over the
\* default ones
C19_UnionVersion ==
    Derived /\ log[1].type \in Generators /\ log[1].version = "union" =>
        LET generated == GeneratorResult.config
            defaults == DefaultAttributes(log[1].type, log[1].project, log[1].associated)
        IN  /\ ~returned.null
            /\ DOMAIN returned.config = DOMAIN generated \cup DOMAIN defaults
            /\ \A k \in DOMAIN generated : returned.config[k] = generated[k]
            /\ \A k \in DOMAIN defaults \ DOMAIN generated :
                  returned.config[k] = defaults[k]

\* ------------------------------------------------------------------- C20

\* C20: for dns and ssl the result is a configuration only when the
\* associated service has a non-empty string domain, and the sentinel
\* otherwise; the dns configuration has the top-level domain, the ssl
\* configuration has type ssl and the full domain.
C20_DomainGate ==
    Derived /\ log[1].type \in {"dns", "ssl"} =>
        IF ~hasDomain(log[1].associated) THEN returned.null
        ELSE /\ ~returned.null
             /\ returned.config["type"] = log[1].type
             /\ returned.config["domain"] =
                   IF log[1].type = "dns"
                   THEN StringOf(getTopLevelDomain(log[1].associated[1]["domain"][2]))
                   ELSE log[1].associated[1]["domain"]

\* the same, of the version whose generators return their attributes or null
C20_GeneratedVersion ==
    Derived /\ log[1].type \in {"dns", "ssl"} /\ log[1].version = "generated" =>
        IF ~hasDomain(log[1].associated) THEN returned.null
        ELSE /\ ~returned.null
             /\ returned.config["type"] = log[1].type
             /\ returned.config["domain"] =
                   IF log[1].type = "dns"
                   THEN StringOf(getTopLevelDomain(log[1].associated[1]["domain"][2]))
                   ELSE log[1].associated[1]["domain"]

\* ------------------------------------------------------------------- C21

\* the nodes reachable from a node over one or more requirement links
RECURSIVE RequiredIn(_, _)
RequiredIn(frontier, seen) ==
    LET next == UNION { RequirementTargets(n) : n \in frontier } \ seen
    IN  IF next = {} THEN seen ELSE RequiredIn(next, seen \cup next)

OnRequirementCycle(id) == id \in RequiredIn({id}, {})

\* the register calls of a node that are in progress, outermost first
Frames(id) == SelectSeq(stack, LAMBDA frame : frame.id = id)

\* where a node is: 0 unregistered, 1 resolving its requirements, 3 resolving
\* its side effects, 4 registered (provisioning itself, 2, is the step from 1
\* to 3); a node with a call in progress is where its innermost call is
NodePhase(id) ==
    IF Frames(id) # <<>>
    THEN IF Frames(id)[Len(Frames(id))].stage = "requirements" THEN 1 ELSE 3
    ELSE IF provisionables[id].registered THEN 4 ELSE 0

\* C21: a node goes through unregistered, requirements-resolving,
\* self-provisioning, side-effects-resolving, registered in that order only:
\* it never re-enters an earlier phase, never starts its phases again while a
\* first pass is in progress, and registered never goes back to false (over
\* node sets without a cycle of requirement links, which C23 is about).
C21_PhasesInOrder ==
    /\ []((\A n \in Ids : ~OnRequirementCycle(n)) =>
            \A id \in Ids : Len(Frames(id)) <= 1)
    /\ [][(\A n \in Ids : ~OnRequirementCycle(n)) =>
            \A id \in Ids :
               /\ NodePhase(id) <= NodePhase(id)'
               /\ provisionables[id].registered => provisionables'[id].registered]_vars

C21_RegisteredStays ==
    [][\A id \in Ids :
          provisionables[id].registered => provisionables'[id].registered]_vars

\* ------------------------------------------------------------------- C22

\* the handler of a requirement link is invoked
RequirementHandlerStep ==
    /\ Len(log') = Len(log) + 1
    /\ log'[Len(log')].kind = "association"
    /\ log'[Len(log')].stage = "requirements"

\* the side-effect links of a node have all been resolved and stored
SideEffectsFinal(id) ==
    /\ Frames(id) = <<>>
    /\ \A l \in Range(Links(sideEffects, id)) :
          l.name \in DOMAIN provisionables[id].sideEffects

\* C22: when the handler of a requirement link is invoked with the linked
\* node M, M is fully registered: its scope handler has returned, registered
\* is true and M's side-effect links have all been resolved.
C22_RequirementSeesRegistered ==
    [][RequirementHandlerStep =>
        LET M == log'[Len(log')].target
        IN  /\ provisionables[M].registered
            /\ log'[Len(log')].linked.registered
            /\ HasHandler(M) => ScopeCalls(M) # {}
            /\ SideEffectsFinal(M)]_vars

\* the part without the side effects
C22_RequirementSeesProvisioned ==
    [][RequirementHandlerStep =>
        LET M == log'[Len(log')].target
        IN  /\ provisionables[M].registered
            /\ log'[Len(log')].linked.registered
            /\ HasHandler(M) => ScopeCalls(M) # {}]_vars

\* --------------------------------------------------------------------- C23

\* C23 as stated: once register has been entered for a node on a requirement
\* cycle the process never ends, no node of the cycle is ever registered and
\* none of their scope handlers is ever invoked
C23_NeverTerminates ==
    \A id \in Ids :
        OnRequirementCycle(id) =>
            /\ Frames(id) # <<>> => ~Ended
            /\ ~provisionables[id].registered
            /\ ScopeCalls(id) = {}

\* C23: register never completes for a node on a requirement cycle: the
\* recursion re-enters the node until the call stack is exhausted, process()
\* then ends in failure and never returns its output, no node of the cycle is
\* ever registered and none of their scope handlers is ever invoked
C23_RecursesUntilStackExhausted ==
    \A id \in Ids :
        OnRequirementCycle(id) =>
            /\ phase # "done"
            /\ ~provisionables[id].registered
            /\ ScopeCalls(id) = {}
            /\ \A i \in DOMAIN returns : returns[i].id # id
            /\ (Frames(id) # <<>> /\ Ended) =>
                  /\ error.kind \in {"RangeError", "validation", "requirement"}
                  /\ error.kind = "RangeError" => Len(stack) = MaxDepth

C23_Witness ==
    /\ phase = "failed"
    /\ error.kind = "RangeError"
    /\ \E id \in Ids :
          /\ OnRequirementCycle(id)
          /\ Len(Frames(id)) >= 2
          /\ HasHandler(id)

\* --------------------------------------------------------------------- C24

\* registerAssociated(), lines 252-256, with a link's handler that returns an
\* empty object: ProvisionResources is Resource | Resource[] | Record<string,
\* Resource>, so {} and [] are among the values a handler may return
handlerEmpty ==
    /\ phase = "running"
    /\ stack # <<>>
    /\ Top.called
    /\ LET link == LinksOf(Top)[Top.index]
           provisionable == Provisionable(Top)
           linked == [provisionables[link.target] EXCEPT !.provisions = returned]
           out == EmptyObj
       IN  /\ log' = Append(log,
                  [kind |-> "association", id |-> Top.id, call |-> Top.call,
                   name |-> link.name,
                   target |-> link.target, stage |-> Top.stage,
                   linked |-> Seen(linked), seen |-> Seen(provisionable),
                   out |-> out])
           /\ stack' = SetTop([Top EXCEPT !.output = Assign(@, link.name, out),
                                          !.index = @ + 1,
                                          !.called = FALSE])
    /\ UNCHANGED << registry, services, env, scope, order, provisionables,
                    requirements, sideEffects, phase, error, cursor, returned,
                    calls, returns, previous >>

\* a deployment with the provider's token in the environment
InitHandlers ==
    \E reg \in Registries("deployable") : \E srvs \in ServiceLists :
        Constructed(reg, srvs, {"TOKEN"}, "deployable")

\* the operation over link handlers that return resources or an empty object
SpecHandlers == InitHandlers /\ [][Next \/ handlerEmpty]_vars

\* the names a node's definition declares as requirements under the scope
RequirementNames(id) ==
    LET associations == Get(ServiceOf(registry, provisionables[id]).associations, scope)
        decls == IF associations = Undefined THEN <<>> ELSE associations
    IN  { decls[i].name : i \in { j \in DOMAIN decls : decls[j].requirement } }

\* C24: whenever a node's scope handler is invoked, the node's requirements
\* hold a non-empty entry under every name its definition declares as a
\* requirement for the scope
C24_RequirementsNonEmpty ==
    \A i \in ScopeEvents :
        \A name \in RequirementNames(log[i].id) :
            /\ name \in DOMAIN log[i].seen.requirements
            /\ DOMAIN log[i].seen.requirements[name] # {}

\* the part the assertion of register() does enforce: an entry is present
C24_RequirementsPresent ==
    \A i \in ScopeEvents :
        \A name \in RequirementNames(log[i].id) :
            name \in DOMAIN log[i].seen.requirements

\* --------------------------------------------------------------------- C25

\* process() has thrown a validation or a missing-requirement error
Aborted == error.kind \in {"validation", "requirement"}

\* C25: when process() aborts on a validation or missing-requirement failure
\* nothing is rolled back: the nodes registered before the failure keep
\* registered = true and their requirements, provisions and sideEffects, no
\* handler is invoked after the failure and process() returns no output
C25_NothingRolledBack ==
    /\ [](Aborted => phase = "failed")
    /\ [][(~Aborted /\ Aborted') =>
               /\ log' = log
               /\ \A id \in Ids :
                     provisionables[id].registered =>
                        provisionables'[id] = provisionables[id]]_vars
    /\ [][Aborted =>
               /\ Aborted'
               /\ log' = log
               /\ provisionables' = provisionables
               /\ phase' # "done"]_vars

C25_Witness ==
    /\ Aborted
    /\ phase = "failed"
    /\ ScopeEvents # {}
    /\ \E id \in Ids :
          /\ provisionables[id].registered
          /\ DOMAIN provisionables[id].provisions # {}
          /\ DOMAIN provisionables[id].sideEffects # {}
    /\ \E id \in Ids :
          /\ provisionables[id].registered
          /\ DOMAIN provisionables[id].requirements # {}

\* --------------------------------------------------------------------- C27

\* the register call on top has gone through the links of its stage and is
\* about to store what it collected
Storing(stage) ==
    /\ phase = "running"
    /\ stack # <<>>
    /\ Top.stage = stage
    /\ ~Top.called
    /\ Finished(Top)

Collected(p, stage) == IF stage = "requirements" THEN p.requirements ELSE p.sideEffects

\* the last link of a name in a list of links
LastOf(links, name) ==
    CHOOSE k \in DOMAIN links :
        /\ links[k].name = name
        /\ \A j \in DOMAIN links : links[j].name = name => j <= k

\* C27: when a register call stores the requirements or the side effects it
\* collected, the handler of every link has been invoked, each with a target
\* that is registered, and under each association name the stored mapping
\* holds the output of the last link of that name only: the outputs of the
\* earlier links of the name are not in it
C27_LastEdgeWins ==
    [][\A stage \in {"requirements", "sideEffects"} :
          (Storing(stage) /\ vars' # vars) =>
             LET n == Top.id
                 links == Links(StageMap(stage), n)
                 made == Invocations(Top.call, stage)
                 stored == Collected(provisionables'[n], stage)
             IN  /\ Len(made) = Len(links)
                 /\ \A k \in DOMAIN links :
                       /\ log[made[k]].name = links[k].name
                       /\ log[made[k]].target = links[k].target
                       /\ log[made[k]].linked.registered
                 /\ DOMAIN stored = { l.name : l \in Range(links) }
                 /\ \A name \in DOMAIN stored :
                       /\ stored[name] = log[made[LastOf(links, name)]].out
                       /\ \A k \in DOMAIN links :
                             (links[k].name = name /\ k # LastOf(links, name)) =>
                                 log[made[k]].out # stored[name]]_vars

\* process() returned and some node collected, under one name with two links,
\* the output of the second
C27_Witness ==
    /\ phase = "done"
    /\ \E n \in Ids : \E stage \in {"requirements", "sideEffects"} :
          LET links == Links(StageMap(stage), n)
          IN  \E j, k \in DOMAIN links :
                 /\ j < k
                 /\ links[j].name = links[k].name
                 /\ k = LastOf(links, links[k].name)
                 /\ Collected(provisionables[n], stage)[links[k].name].of = links[k].target
                 /\ \E i \in DOMAIN log :
                       /\ log[i].kind = "association" /\ log[i].stage = stage
                       /\ log[i].id = n /\ log[i].target = links[j].target
                       /\ log[i].name = links[j].name

\* --------------------------------------------------------------------- C28

\* C28: no step of process() changes a node's id, config, resourceId or
\* service definition, the set or the order of the node ids, or the
\* requirement and side-effect links made by the constructor: the defaults of
\* the schema, which register's validation applies, are not written to the
\* node's config
C28_Frame ==
    [][/\ DOMAIN provisionables' = DOMAIN provisionables
       /\ \A id \in Ids :
             /\ provisionables'[id].id = provisionables[id].id
             /\ provisionables'[id].config = provisionables[id].config
             /\ provisionables'[id].resourceId = provisionables[id].resourceId
             /\ provisionables'[id].service = provisionables[id].service
       /\ registry' = registry
       /\ order' = order
       /\ requirements' = requirements
       /\ sideEffects' = sideEffects]_vars

\* process() returned after it registered a node whose config lacks a property
\* the schema has a default for, and that has links of both kinds to follow
C28_Witness ==
    /\ phase = "done"
    /\ DOMAIN requirements # {}
    /\ DOMAIN sideEffects # {}
    /\ \E id \in Ids :
          /\ provisionables[id].registered
          /\ DOMAIN provisionables[id].requirements # {}
          /\ withDefaults(ServiceOf(registry, provisionables[id]).schema,
                          provisionables[id].config) # provisionables[id].config
          /\ getProvisionable(provisionables[id].config).id = id

\* --------------------------------------------------------------------- C29

\* the configurations of the list that have the id
ConfigsOf(id) == { i \in DOMAIN services : hashObject(services[i]) = id }

\* the ids that more than one configuration of the list has
Collapsed == { id \in Ids : Cardinality(ConfigsOf(id)) > 1 }

\* one node per distinct id, which is the node of the last configuration of
\* that id, and every link is to a node of the set
OneNodePerId ==
    /\ Ids = { hashObject(services[i]) : i \in DOMAIN services }
    /\ Len(order) = Cardinality(Ids)
    /\ Range(order) = Ids
    /\ \A id \in Ids :
          LET last == CHOOSE i \in ConfigsOf(id) : \A j \in ConfigsOf(id) : j <= i
          IN  /\ provisionables[id].id = id
              /\ provisionables[id].config = services[last]
    /\ \A n \in Ids : \A stage \in {"requirements", "sideEffects"} :
          LET links == Links(StageMap(stage), n)
          IN  \A k \in DOMAIN links :
                 /\ links[k].target \in Ids
                 /\ Count(links, links[k].name, links[k].target) = 1

\* C29: the operation holds exactly one node per distinct id, the node of the
\* later configuration when several configurations have the same id; the
\* scope handler of such a node runs once per operation and the links are to
\* that single node
C29_OneNodeProvisionedOnce ==
    /\ OneNodePerId
    /\ \A id \in Collapsed :
          /\ Cardinality(ScopeCalls(id)) <= 1
          /\ (phase = "done" /\ HasHandler(id)) => Cardinality(ScopeCalls(id)) = 1

\* the part that holds: the node set and the links
C29_OneNodePerId == OneNodePerId

\* ----------------------------------------------------- the run as scheduled

\* where the run is: every step of Next changes it
position == << phase, cursor, stack >>

\* process() is one synchronous call: a step that can be taken is taken
SpecLive == Init /\ [][Next]_vars /\ WF_position(Next)

\* --------------------------------------------------------------------- C30

\* the nodes reachable from a node over one or more side-effect links
RECURSIVE AffectedIn(_, _)
AffectedIn(frontier, seen) ==
    LET next == UNION { SideEffectTargets(n) : n \in frontier } \ seen
    IN  IF next = {} THEN seen ELSE AffectedIn(next, seen \cup next)

\* some cycle is made of side-effect links only
SideEffectCycle == \E id \in Ids : id \in AffectedIn({id}, {})

\* no requirement link is part of a cycle
NoRequirementOnCycle ==
    \A n \in Ids : \A m \in RequirementTargets(n) : n # m /\ n \notin Reachable(m)

\* the invocations of the handler of one side-effect link
SideEffectCalls(n, l) ==
    { i \in SideEffectEvents :
        log[i].id = n /\ log[i].name = l.name /\ log[i].target = l.target }

\* the log only grows, so what holds of the handler counts when process() has
\* ended held all along
InvokedOnce ==
    \A n \in Ids :
       /\ Cardinality(ScopeCalls(n)) <= 1
       /\ (phase = "done" /\ HasHandler(n)) => Cardinality(ScopeCalls(n)) = 1
       /\ \A l \in Range(Links(sideEffects, n)) :
             /\ Cardinality(SideEffectCalls(n, l)) <= 1
             /\ phase = "done" => Cardinality(SideEffectCalls(n, l)) = 1

\* C30: when the only cycles are cycles of side-effect links, process()
\* terminates, no scope handler and no handler of a side-effect link is invoked
\* more than once, and when process() returns each has been invoked exactly
\* once
C30_SideEffectCycleTerminates ==
    (SideEffectCycle /\ NoRequirementOnCycle) ~> (Ended /\ InvokedOnce)

\* process() returned over two nodes that have a side effect on each other,
\* and over a node that has a side effect on itself
C30_Witness ==
    /\ phase = "done"
    /\ NoRequirementOnCycle
    /\ \E n, m \in Ids :
          /\ n # m
          /\ m \in SideEffectTargets(n)
          /\ n \in SideEffectTargets(m)
          /\ HasHandler(n) /\ HasHandler(m)
    /\ \E n \in Ids : n \in SideEffectTargets(n)

\* --------------------------------------------------------------------- C26

\* every configuration validates and every declared requirement has a link
Satisfiable ==
    \A id \in Ids :
        /\ validate(ServiceOf(registry, provisionables[id]), provisionables[id].config)
        /\ Unmatched(id) = {}

\* C26: over a node set without a cycle of links, whose configurations
\* validate and whose requirements have a link each, process() terminates; it
\* fails only when the environment lacks a variable, and when it returns every
\* node is registered
C26_AcyclicTerminatesRegistered ==
    (Acyclic /\ Satisfiable) ~>
        /\ Ended
        /\ phase = "failed" => error.kind = "environment"
        /\ phase = "done" => \A id \in Ids : provisionables[id].registered

\* process() returned over three nodes with a requirement and a side-effect
\* link among them, all registered
C26_Witness ==
    /\ phase = "done"
    /\ Acyclic /\ Satisfiable
    /\ Cardinality(Ids) = MaxServices
    /\ DOMAIN requirements # {}
    /\ DOMAIN sideEffects # {}
    /\ \A id \in Ids : provisionables[id].registered

====
